---- MODULE Spec2Model ----
(***************************************************************************)
(* Verification model of yawara/cameleon.                                  *)
(*                                                                         *)
(* Part 1: the asynchronous bulk-transfer pool of                          *)
(* cameleon/src/u3v/async_read.rs (AsyncPool, AsyncTransfer,               *)
(* poll_completed).  One pool thread calls submit / poll / cancel_all and  *)
(* finally drops the pool; the driver (libusb) completes in-flight         *)
(* transfers at any time by running transfer_cb, either from the pool      *)
(* thread's own call of libusb_handle_events_locked or from another        *)
(* event-handling thread.                                                  *)
(***************************************************************************)
EXTENDS Integers, Sequences, FiniteSets, TLC

\* Number of transfers the pool thread allocates in one run.
MaxTransfers == 3

\* The same, in the runs checked under fairness (FairSpec).
MaxFairTransfers == 2

Transfers == 1..MaxTransfers

VARIABLES
    pending,       \* AsyncPool.pending: VecDeque<AsyncTransfer>, as transfer ids, front first
    nextId,        \* the id the next libusb_alloc_transfer returns (submission order)
    xfer,          \* per transfer: the libusb_transfer struct is "unalloc" | "alloc" | "freed"
    flagHeap,      \* per transfer: the Box<AtomicBool> behind user_data is "none" | "live" | "freed"
    flag,          \* per transfer: the value of the completion flag
    drv,           \* per transfer, driver side: "idle" | "inflight" | "done" (callback has run)
    cancelling,    \* per transfer, driver side: libusb_cancel_transfer accepted
    status,        \* per transfer: libusb_transfer.status once completed
    pc,            \* position of the pool thread
    inDrop,        \* the pool thread is inside Drop for AsyncPool
    op,            \* the AsyncPool method entered last
    ret,           \* the value the last finished AsyncPool method returned
    pendingAtCall, \* pending when the method named by op was entered
    polled,        \* poll: the transfer `next` whose flag poll_completed watches
    err,           \* poll_completed: local `err`
    expired,       \* poll_completed: `deadline > Instant::now()` was seen false
    pcRes,         \* what poll_completed returned last
    flagAtRet,     \* the value of the watched flag at that return
    ci,            \* cancel_all: number of loop iterations done
    cancelLog,     \* cancel_all: the cancel calls of the current call, in order
    cancelledAll   \* cancel_all has returned and nothing was submitted since

poolVars == <<pending, nextId, xfer, flagHeap, flag, drv, cancelling, status, pc,
              inDrop, op, ret, pendingAtCall, polled, err, expired, pcRes,
              flagAtRet, ci, cancelLog, cancelledAll>>

----------------------------------------------------------------------------
\* Part 2: the GenTL device module of cameleon-gentl/src/imp/device/u3v.rs
\* (U3VDeviceModule): state.  Its operations follow the pool's.

\* Number of bytes of the module's local memory (vm) that the port
\* operations of the explored runs address.
VmSize == 2

VARIABLES
    dExists,        \* U3VDeviceModule::new has returned the module (and it is not dropped)
    current_status, \* U3VDeviceModule.current_status
    remote_device,  \* U3VDeviceModule.remote_device is Some
    statusReg,      \* the raw u32 in vm's DeviceAccessStatusReg
    vm,             \* the first VmSize bytes of U3VDeviceModule.vm
    devOpened,      \* the underlying u3v::Device is open
    lastReflected,  \* current_status as of the last reflect_status
    dOp             \* the module operation performed last, its inputs and its result

devVars == <<dExists, current_status, remote_device, statusReg, vm, devOpened,
             lastReflected, dOp>>

----------------------------------------------------------------------------
\* Part 3: the access rights of the emulated memory of
\* cameleon-impl/src/memory.rs (AccessRight, MemoryProtection): state.

\* Largest memory_size a MemoryProtection is made with.
MemSize == 5

VARIABLES
    pExists,      \* MemoryProtection::new has returned
    memory_size,  \* MemoryProtection.memory_size
    inner,        \* MemoryProtection.inner: Vec<u8>, the bitmap, indexed from 0
    rights,       \* per address: the right passed to the last set_access_right, NA if none
    mRes          \* the call in progress, its arguments and its result

memVars == <<pExists, memory_size, inner, rights, mRes>>

----------------------------------------------------------------------------
\* Part 4: typed register writes of cameleon-impl/src/memory.rs (trait
\* Register, MemoryWrite::write, register_observer): state.

\* Number of bytes of the memory the typed writes go to.
RegMemSize == 4

\* Length in bytes of each register of that memory.
RegLen == 2

\* Largest number of observers registered on one register.
MaxObservers == 2

VARIABLES
    raw,        \* the bytes of the memory
    observers,  \* per register: the number of observers registered on it
    rOp         \* the typed operation performed last, its arguments and its result

regVars == <<raw, observers, rOp>>

----------------------------------------------------------------------------
\* Part 5: the acknowledge parser of
\* cameleon-device/src/usb3/protocol/ack.rs (AckPacket::parse): state.

VARIABLES
    ackBuf,     \* the bytes handed to AckPacket::parse, <<>> when there are none
    ack         \* what AckPacket::parse made of ackBuf

ackVars == <<ackBuf, ack>>

\* What each part leaves alone.
nonPoolVars == <<devVars, memVars, regVars, ackVars>>
nonDevVars == <<poolVars, memVars, regVars, ackVars>>
nonMemVars == <<poolVars, devVars, regVars, ackVars>>
nonRegVars == <<poolVars, devVars, memVars, ackVars>>
nonAckVars == <<poolVars, devVars, memVars, regVars>>

vars == <<poolVars, devVars, memVars, regVars, ackVars>>

----------------------------------------------------------------------------
\* Part 1: the pool


driverVars == <<drv, cancelling, status>>
heapVars   == <<xfer, flagHeap>>
pollLocals == <<polled, err, expired, pcRes, flagAtRet>>
cancelLocals == <<ci, cancelLog>>

----------------------------------------------------------------------------
\* libusb error codes and the error types of the module

LIBUSB_SUCCESS == "LIBUSB_SUCCESS"
LIBUSB_ERROR_TIMEOUT == "LIBUSB_ERROR_TIMEOUT"
LIBUSB_ERROR_NOT_FOUND == "LIBUSB_ERROR_NOT_FOUND"

\* AsyncError::from_libusb_error: Ok(()) is "Ok", Err(x) is the variant's name.
from_libusb_error(e) ==
    CASE e = "LIBUSB_SUCCESS"             -> "Ok"
      [] e = "LIBUSB_ERROR_IO"            -> "Io"
      [] e = "LIBUSB_ERROR_INVALID_PARAM" -> "InvalidParam"
      [] e = "LIBUSB_ERROR_ACCESS"        -> "Access"
      [] e = "LIBUSB_ERROR_NO_DEVICE"     -> "NoDevice"
      [] e = "LIBUSB_ERROR_NOT_FOUND"     -> "NotFound"
      [] e = "LIBUSB_ERROR_BUSY"          -> "Busy"
      [] e = "LIBUSB_ERROR_TIMEOUT"       -> "Timeout"
      [] e = "LIBUSB_ERROR_OVERFLOW"      -> "Overflow"
      [] e = "LIBUSB_ERROR_PIPE"          -> "Pipe"
      [] e = "LIBUSB_ERROR_INTERRUPTED"   -> "Interrupted"
      [] e = "LIBUSB_ERROR_NO_MEM"        -> "NoMem"
      [] e = "LIBUSB_ERROR_NOT_SUPPORTED" -> "NotSupported"
      [] e = "LIBUSB_ERROR_OTHER"         -> "Other"

\* impl From<AsyncError> for StreamError
StreamError_from(e) ==
    IF e = "Disconnected" THEN [tag |-> "Disconnected", err |-> e]
                          ELSE [tag |-> "Io", err |-> e]

RetOk   == [tag |-> "Ok",   err |-> "-"]
RetUnit == [tag |-> "Unit", err |-> "-"]
RetNone == [tag |-> "None", err |-> "-"]

\* What libusb_submit_transfer returns in the runs explored.
SubmitErrnos == {"LIBUSB_SUCCESS", "LIBUSB_ERROR_NO_DEVICE"}

\* What libusb_handle_events_locked returns in the runs explored.
HandleEventsErrnos ==
    {"LIBUSB_SUCCESS", "LIBUSB_ERROR_TIMEOUT", "LIBUSB_ERROR_IO"}

\* The statuses the driver can complete a transfer with.  The transfers are
\* filled with timeout 0, so LIBUSB_TRANSFER_TIMED_OUT never occurs; CANCELLED
\* needs an accepted cancel request.
CompletionStatuses(c) ==
    {"COMPLETED", "ERROR", "STALL", "NO_DEVICE", "OVERFLOW"}
        \cup (IF c THEN {"CANCELLED"} ELSE {})

----------------------------------------------------------------------------
\* AsyncTransfer

\* AsyncTransfer::transfer_cb: store true into the flag behind user_data.
transfer_cb(f, t) == [f EXCEPT ![t] = TRUE]

\* AsyncTransfer::completed_flag
completed_flag(t) == flag[t]

\* AsyncTransfer::handle_completed: the result for a transfer status.
handle_completed(st) ==
    CASE st = "COMPLETED" -> RetOk
      [] st = "CANCELLED" -> StreamError_from("Cancelled")
      [] st = "ERROR"     -> StreamError_from("Other")
      [] st = "STALL"     -> StreamError_from("Stall")
      [] st = "NO_DEVICE" -> StreamError_from("Disconnected")
      [] st = "OVERFLOW"  -> StreamError_from("Overflow")

\* libusb_cancel_transfer as called by AsyncTransfer::cancel: accepted (0) for
\* a transfer in flight that is not being cancelled yet, LIBUSB_ERROR_NOT_FOUND
\* for one already complete or already cancelled.
cancel_errno(d, c, t) ==
    IF d[t] = "inflight" /\ ~c[t] THEN LIBUSB_SUCCESS ELSE LIBUSB_ERROR_NOT_FOUND

\* AsyncTransfer::cancel: the driver-side effect; the error code is discarded.
cancel(d, c, t) ==
    IF d[t] = "inflight" THEN [c EXCEPT ![t] = TRUE] ELSE c

\* AsyncTransfer::new_bulk: libusb_alloc_transfer, and a fresh boxed flag.
new_bulk_xfer(x, t) == [x EXCEPT ![t] = "alloc"]
new_bulk_flagHeap(h, t) == [h EXCEPT ![t] = "live"]

\* impl Drop for AsyncTransfer: libusb_free_transfer(ptr), and nothing else:
\* the box behind user_data is not released.
drop_xfer(x, t) == [x EXCEPT ![t] = "freed"]
drop_flagHeap(h, t) == h

----------------------------------------------------------------------------
\* AsyncPool

\* AsyncPool::is_empty / pending
is_empty == Len(pending) = 0

\* self.pending.front(): 0 stands for None.
front(p) == IF Len(p) = 0 THEN 0 ELSE p[1]

\* A pool that reaps from the back (pop_back).
pop_back_index(p) == Len(p)

\* The index self.pending.pop_front() removes.
pop_front_index(p) == 1

RemoveAt(p, i) == SubSeq(p, 1, i - 1) \o SubSeq(p, i + 1, Len(p))

\* A cancel_all that iterates front to back (no .rev()).
fwd_index(n, k) == k

\* The index visited by the k-th iteration of self.pending.iter_mut().rev()
\* over n elements.
rev_index(n, k) == n - k + 1

\* A cancel_all that takes the transfer it cancels out of the deque.
cancel_all_pending_removing(p, t) == SelectSeq(p, LAMBDA u : u # t)

\* What an iteration of cancel_all over transfer t leaves in self.pending:
\* iter_mut() hands out the elements in place and removes none.
cancel_all_pending(p, t) == p

\* A cancel_all that passes on the first error libusb_cancel_transfer gave.
cancel_all_ret_propagating(log) ==
    IF \E i \in 1..Len(log) : log[i].errno # LIBUSB_SUCCESS
    THEN StreamError_from(from_libusb_error(
             log[CHOOSE i \in 1..Len(log) : log[i].errno # LIBUSB_SUCCESS].errno))
    ELSE RetUnit

\* What cancel_all returns: () whatever libusb_cancel_transfer answered.
cancel_all_ret(log) == RetUnit

\* The driver-side effect of the whole loop of cancel_all on the pending
\* transfers p, from iteration k on.
RECURSIVE cancel_all_effect(_, _, _, _)
cancel_all_effect(d, c, p, k) ==
    IF k > Len(p) THEN c
    ELSE cancel_all_effect(d, cancel(d, c, p[rev_index(Len(p), k)]), p, k + 1)

\* A poll_completed that does not load the flag again after the loop.
poll_completed_ret_no_reload(e, f) ==
    IF e = LIBUSB_SUCCESS THEN "OkTrue"
    ELSE IF e = LIBUSB_ERROR_TIMEOUT THEN "OkFalse"
    ELSE "Err"

\* poll_completed's final match on err, with f the value completed.load gives.
poll_completed_ret(e, f) ==
    IF e = LIBUSB_SUCCESS THEN (IF f THEN "OkTrue" ELSE "OkFalse")
    ELSE IF e = LIBUSB_ERROR_TIMEOUT THEN "OkFalse"
    ELSE "Err"

\* A poll that reaps the front transfer on a timeout as well.
poll_reaps_on_timeout(r) == r \in {"OkTrue", "OkFalse"}

\* poll: the branch of `if poll_completed(..)? { pop_front .. }` that reaps.
poll_reaps(r) == r = "OkTrue"

\* A poll that reports an empty pool as a timeout.
poll_empty_ret_timeout == StreamError_from("Timeout")

\* AsyncError::NoTransfersPending.into()
poll_empty_ret == StreamError_from("NoTransfersPending")

\* The pc a method returns to: the drop loop inside Drop, the caller otherwise.
ReturnPc == IF inDrop THEN "drop_loop" ELSE "idle"
Returned == pc \in {"idle", "drop_loop", "dropped"}

ResetPollLocals ==
    /\ polled' = 0
    /\ err' = LIBUSB_SUCCESS
    /\ expired' = FALSE
    /\ pcRes' = "None"
    /\ flagAtRet' = FALSE

ResetCancelLocals == ci' = 0 /\ cancelLog' = <<>>

VmAddrs == 0..(VmSize - 1)
VmBytes == {0, 1}

\* No operation yet.
NoOp ==
    [seq |-> 0, name |-> "none", flag |-> "-", res |-> "-", ch |-> "-",
     rd |-> "-", ret |-> "-", handled |-> FALSE, again |-> FALSE]

\* Before enumeration there is no module; its fields hold what the struct
\* literal of U3VDeviceModule::new puts in them.
DevInit ==
    /\ dExists = FALSE
    /\ current_status = "Unknown"
    /\ remote_device = FALSE
    /\ statusReg = 0
    /\ vm = [a \in VmAddrs |-> 0]
    /\ devOpened = FALSE
    /\ lastReflected = "Unknown"
    /\ dOp = NoOp

\* No call of the memory in progress.
NoRes == [name |-> "none"]

\* Before MemoryProtection::new there is no protection.
MemInit ==
    /\ pExists = FALSE
    /\ memory_size = 0
    /\ inner = <<>>
    /\ rights = <<>>
    /\ mRes = NoRes

\* RawRegister: the registers of the memory, RegLen bytes at every offset
\* that fits.
Registers == {[offset |-> o, len |-> RegLen] : o \in 0..(RegMemSize - RegLen)}

\* No typed operation yet.
NoRegOp == [name |-> "none", reg |-> "-", data |-> <<>>, ret |-> "-", fired |-> 0]

\* The memory is zeroed and no observer is registered.
RegInit ==
    /\ raw = [i \in 0..(RegMemSize - 1) |-> 0]
    /\ observers = [r \in Registers |-> 0]
    /\ rOp = NoRegOp

\* Nothing parsed yet.
NoAck == [parsed |-> FALSE]

\* No buffer has been received.
AckInit ==
    /\ ackBuf = <<>>
    /\ ack = NoAck

\* AsyncPool::new; the device module is not enumerated yet.
Init ==
    /\ pending = <<>>
    /\ nextId = 1
    /\ xfer = [t \in Transfers |-> "unalloc"]
    /\ flagHeap = [t \in Transfers |-> "none"]
    /\ flag = [t \in Transfers |-> FALSE]
    /\ drv = [t \in Transfers |-> "idle"]
    /\ cancelling = [t \in Transfers |-> FALSE]
    /\ status = [t \in Transfers |-> "NONE"]
    /\ pc = "idle"
    /\ inDrop = FALSE
    /\ op = "none"
    /\ ret = RetNone
    /\ pendingAtCall = <<>>
    /\ polled = 0
    /\ err = LIBUSB_SUCCESS
    /\ expired = FALSE
    /\ pcRes = "None"
    /\ flagAtRet = FALSE
    /\ ci = 0
    /\ cancelLog = <<>>
    /\ cancelledAll = FALSE
    /\ DevInit
    /\ MemInit
    /\ RegInit
    /\ AckInit

\* AsyncPool::submit: new_bulk, AsyncTransfer::submit, push_back; on a failed
\* submission the `?` returns and the transfer is dropped.
submit_upto(max) ==
    /\ pc = "idle"
    /\ nextId <= max
    /\ \E e \in SubmitErrnos :
        LET t == nextId IN
        /\ nextId' = nextId + 1
        /\ flag' = [flag EXCEPT ![t] = FALSE]
        /\ IF from_libusb_error(e) = "Ok"
           THEN /\ xfer' = new_bulk_xfer(xfer, t)
                /\ flagHeap' = new_bulk_flagHeap(flagHeap, t)
                /\ drv' = [drv EXCEPT ![t] = "inflight"]
                /\ pending' = Append(pending, t)
                /\ ret' = RetOk
                /\ cancelledAll' = FALSE
           ELSE /\ xfer' = drop_xfer(new_bulk_xfer(xfer, t), t)
                /\ flagHeap' = drop_flagHeap(new_bulk_flagHeap(flagHeap, t), t)
                /\ ret' = StreamError_from(from_libusb_error(e))
                /\ UNCHANGED <<drv, pending, cancelledAll>>
    /\ op' = "submit"
    /\ pendingAtCall' = pending
    /\ ResetPollLocals
    /\ ResetCancelLocals
    /\ UNCHANGED <<cancelling, status, pc, inDrop>>
    /\ UNCHANGED nonPoolVars

submit == submit_upto(MaxTransfers)

\* The driver completes transfer t with status st and runs its callback; a
\* cancel request in progress ends with the completion.
dispatch(t, st) ==
    /\ drv[t] = "inflight"
    /\ st \in CompletionStatuses(cancelling[t])
    /\ drv' = [drv EXCEPT ![t] = "done"]
    /\ cancelling' = [cancelling EXCEPT ![t] = FALSE]
    /\ status' = [status EXCEPT ![t] = st]
    /\ flag' = transfer_cb(flag, t)

\* A completion delivered by an event-handling thread other than the pool thread.
Complete(t) ==
    /\ \E st \in CompletionStatuses(cancelling[t]) : dispatch(t, st)
    /\ UNCHANGED <<pending, nextId, heapVars, pc, inDrop, op, ret,
                   pendingAtCall, pollLocals, cancelLocals, cancelledAll>>
    /\ UNCHANGED nonPoolVars

\* The body of poll up to the call of poll_completed.
poll_enter ==
    /\ op' = "poll"
    /\ pendingAtCall' = pending
    /\ ResetCancelLocals
    /\ IF front(pending) = 0
       THEN /\ ret' = poll_empty_ret
            /\ pc' = ReturnPc
            /\ ResetPollLocals
       ELSE /\ ret' = RetNone
            /\ pc' = "pc_loop"
            /\ polled' = front(pending)
            /\ err' = LIBUSB_SUCCESS
            /\ expired' = FALSE
            /\ pcRes' = "None"
            /\ flagAtRet' = FALSE

\* AsyncPool::poll, called by the user of the pool.
poll ==
    /\ pc = "idle"
    /\ poll_enter
    /\ UNCHANGED <<pending, nextId, heapVars, flag, driverVars, inDrop, cancelledAll>>
    /\ UNCHANGED nonPoolVars

\* poll_completed: the loop condition, and libusb_try_lock_events when the
\* loop body is entered.
poll_completed_loop ==
    /\ pc = "pc_loop"
    /\ IF err = LIBUSB_SUCCESS /\ ~completed_flag(polled)
       THEN \E past \in BOOLEAN :
              /\ expired' = past
              /\ IF past THEN pc' = "pc_match"
                 ELSE \E locked \in BOOLEAN :
                        pc' = IF locked THEN "pc_locked" ELSE "pc_waiters"
       ELSE /\ pc' = "pc_match"
            /\ UNCHANGED expired
    /\ UNCHANGED <<pending, nextId, heapVars, flag, driverVars, inDrop, op, ret,
                   pendingAtCall, polled, err, pcRes, flagAtRet, cancelLocals,
                   cancelledAll>>
    /\ UNCHANGED nonPoolVars

\* poll_completed: the branch holding the events lock.  When the flag is
\* unset and libusb_event_handling_ok, libusb_handle_events_locked runs: it
\* may dispatch the callback of a transfer in flight and returns an error code.
handle_events_locked ==
    /\ pc = "pc_locked"
    /\ \/ /\ ~completed_flag(polled)
          /\ \E e \in HandleEventsErrnos :
               /\ err' = e
               /\ \/ UNCHANGED <<drv, cancelling, status, flag>>
                  \/ \E t \in Transfers :
                       \E st \in CompletionStatuses(cancelling[t]) : dispatch(t, st)
       \/ UNCHANGED <<err, drv, cancelling, status, flag>>
    /\ pc' = "pc_loop"
    /\ UNCHANGED <<pending, nextId, heapVars, inDrop, op, ret,
                   pendingAtCall, polled, expired, pcRes, flagAtRet, cancelLocals,
                   cancelledAll>>
    /\ UNCHANGED nonPoolVars

\* poll_completed: the branch that waits for the thread handling events.
wait_for_event ==
    /\ pc = "pc_waiters"
    /\ pc' = "pc_loop"
    /\ UNCHANGED <<pending, nextId, heapVars, flag, driverVars, inDrop, op, ret,
                   pendingAtCall, pollLocals, cancelLocals, cancelledAll>>
    /\ UNCHANGED nonPoolVars

\* poll_completed returns, and poll finishes: an error is passed on by `?`,
\* Ok(true) pops the front transfer, takes its result and drops it, Ok(false)
\* gives Timeout.
poll_finish ==
    /\ pc = "pc_match"
    /\ LET f == completed_flag(polled)
           r == poll_completed_ret(err, f)
           i == pop_front_index(pending)
           t == pending[i]
       IN  /\ pcRes' = r
           /\ flagAtRet' = f
           /\ IF r = "Err"
              THEN /\ ret' = StreamError_from(from_libusb_error(err))
                   /\ UNCHANGED <<pending, heapVars, status>>
              ELSE IF poll_reaps(r)
              THEN /\ pending' = RemoveAt(pending, i)
                   /\ ret' = IF flag[t] THEN handle_completed(status[t])
                                        ELSE [tag |-> "Panic", err |-> "-"]
                   /\ xfer' = drop_xfer(xfer, t)
                   /\ flagHeap' = drop_flagHeap(flagHeap, t)
                   /\ status' = [status EXCEPT ![t] = "NONE"]
              ELSE /\ ret' = StreamError_from("Timeout")
                   /\ UNCHANGED <<pending, heapVars, status>>
    /\ pc' = ReturnPc
    /\ UNCHANGED <<nextId, flag, drv, cancelling, inDrop, op, pendingAtCall,
                   polled, err, expired, cancelLocals, cancelledAll>>
    /\ UNCHANGED nonPoolVars

\* The entry of cancel_all.
cancel_all_enter ==
    /\ op' = "cancel_all"
    /\ pendingAtCall' = pending
    /\ ci' = 0
    /\ cancelLog' = <<>>
    /\ ret' = RetNone
    /\ ResetPollLocals

\* AsyncPool::cancel_all, called by the user of the pool.
cancel_all ==
    /\ pc = "idle"
    /\ cancel_all_enter
    /\ pc' = "cancel"
    /\ UNCHANGED <<pending, nextId, heapVars, flag, driverVars, inDrop, cancelledAll>>
    /\ UNCHANGED nonPoolVars

\* One iteration of the loop of cancel_all, or its end.
cancel_all_step ==
    /\ pc = "cancel"
    /\ IF ci < Len(pending)
       THEN LET t == pending[rev_index(Len(pending), ci + 1)] IN
            /\ cancelling' = cancel(drv, cancelling, t)
            /\ cancelLog' = Append(cancelLog,
                                   [id |-> t, errno |-> cancel_errno(drv, cancelling, t)])
            /\ ci' = ci + 1
            /\ pending' = cancel_all_pending(pending, t)
            /\ UNCHANGED <<pc, ret, cancelledAll>>
       ELSE /\ ret' = cancel_all_ret(cancelLog)
            /\ cancelledAll' = TRUE
            /\ pc' = ReturnPc
            /\ UNCHANGED <<pending, cancelling, cancelLog, ci>>
    /\ UNCHANGED <<nextId, heapVars, flag, drv, status, inDrop, op,
                   pendingAtCall, pollLocals>>
    /\ UNCHANGED nonPoolVars

\* A Drop that drains without cancelling first.
drop_first_no_cancel == "drop_loop"

\* The first thing Drop for AsyncPool does: self.cancel_all().
drop_first == "cancel"

\* impl Drop for AsyncPool: entry.
drop ==
    /\ pc = "idle"
    /\ inDrop' = TRUE
    /\ cancel_all_enter
    /\ pc' = drop_first
    /\ UNCHANGED <<pending, nextId, heapVars, flag, driverVars, cancelledAll>>
    /\ UNCHANGED nonPoolVars

\* impl Drop for AsyncPool: `while !self.is_empty() { self.poll(1 s).ok(); }`
drop_loop ==
    /\ pc = "drop_loop"
    /\ IF is_empty
       THEN /\ pc' = "dropped"
            /\ UNCHANGED <<op, ret, pendingAtCall, pollLocals, cancelLocals>>
       ELSE poll_enter
    /\ UNCHANGED <<pending, nextId, heapVars, flag, driverVars, inDrop, cancelledAll>>
    /\ UNCHANGED nonPoolVars

Next ==
    \/ submit
    \/ poll
    \/ poll_completed_loop
    \/ handle_events_locked
    \/ wait_for_event
    \/ poll_finish
    \/ cancel_all
    \/ cancel_all_step
    \/ drop
    \/ drop_loop
    \/ \E t \in Transfers : Complete(t)

\* The pool alone: the device module stays as it starts.
Spec == Init /\ [][Next]_vars

\* The pool thread runs on once it is inside a method.
PoolStep ==
    \/ poll_completed_loop
    \/ handle_events_locked
    \/ wait_for_event
    \/ poll_finish
    \/ cancel_all_step
    \/ drop_loop

\* The driver completes every transfer whose cancellation it accepted.
CompleteCancelled(t) == cancelling[t] /\ Complete(t)

FairNext ==
    \/ submit_upto(MaxFairTransfers)
    \/ poll
    \/ poll_completed_loop
    \/ handle_events_locked
    \/ wait_for_event
    \/ poll_finish
    \/ cancel_all
    \/ cancel_all_step
    \/ drop
    \/ drop_loop
    \/ \E t \in Transfers : Complete(t)

FairSpec ==
    /\ Init
    /\ [][FairNext]_vars
    /\ WF_vars(PoolStep)
    /\ \A t \in Transfers : WF_vars(CompleteCancelled(t))

----------------------------------------------------------------------------
\* Part 2: the GenTL device module (U3VDeviceModule): operations

\* The values of DeviceAccessStatus.
DeviceAccessStatuses ==
    {"Unknown", "ReadWrite", "ReadOnly", "NoAccess", "Busy", "OpenReadWrite",
     "OpenReadOnly"}

\* The values of DeviceAccessFlag the callers of the explored runs pass.
AccessFlags == {"ReadOnly", "Control", "Exclusive"}

\* What self.device.open() / self.device.close() give once mapped into
\* GenTlResult (`res`): Ok, an access conflict (AccessDenied), an I/O failure
\* (Io), or another error.
DeviceResults == {"Ok", "AccessDenied", "Io", "NotAvailable"}

\* What self.device.control_handle() and U3VRemoteDevice::new give.
HandleResults == {"Ok", "Io", "NotAvailable"}

\* `self.current_status as u32`, with the numbering of GenTL's
\* DEVICE_ACCESS_STATUS_LIST.
DeviceAccessStatus_as_u32(st) ==
    CASE st = "Unknown"       -> 0
      [] st = "ReadWrite"     -> 1
      [] st = "ReadOnly"      -> 2
      [] st = "NoAccess"      -> 3
      [] st = "Busy"          -> 4
      [] st = "OpenReadWrite" -> 5
      [] st = "OpenReadOnly"  -> 6

\* DeviceAccessStatus::from_num
DeviceAccessStatus_from_num(n) ==
    CASE n = 1 -> "ReadWrite"
      [] n = 2 -> "ReadOnly"
      [] n = 3 -> "NoAccess"
      [] n = 4 -> "Busy"
      [] n = 5 -> "OpenReadWrite"
      [] n = 6 -> "OpenReadOnly"
      [] OTHER -> "Unknown"

\* DeviceAccessStatus::is_opened
status_is_opened(st) == st \in {"OpenReadWrite", "OpenReadOnly"}

\* U3VDeviceModule::is_opened
is_opened == status_is_opened(current_status)

\* A module whose port operations do not check that it is opened.
assert_open_unchecked == "Ok"

\* U3VDeviceModule::assert_open
assert_open == IF is_opened THEN "Ok" ELSE "NotInitialized"

\* An open that does not look at is_opened.
open_precheck_no_in_use(f, opened) ==
    IF f # "Exclusive" THEN "AccessDenied" ELSE "Proceed"

\* An open that looks at is_opened before it looks at the flag.
open_precheck_opened_first(f, opened) ==
    IF opened THEN "ResourceInUse"
    ELSE IF f # "Exclusive" THEN "AccessDenied"
    ELSE "Proceed"

\* open: the two early returns.
open_precheck(f, opened) ==
    IF f # "Exclusive" THEN "AccessDenied"
    ELSE IF opened THEN "ResourceInUse"
    ELSE "Proceed"

\* An open that takes the module back to ReadWrite on success.
open_status_not_opening(res) ==
    CASE res = "Ok"           -> "ReadWrite"
      [] res = "AccessDenied" -> "Busy"
      [] res = "Io"           -> "NoAccess"
      [] OTHER                -> "Unknown"

\* open: `self.current_status = match &res { .. }`
open_status(res) ==
    CASE res = "Ok"           -> "OpenReadWrite"
      [] res = "AccessDenied" -> "Busy"
      [] res = "Io"           -> "NoAccess"
      [] OTHER                -> "Unknown"

\* An open that assigns current_status from res before the two `?`.
open_early_status_assigned(res, cur) == open_status(res)

\* open: current_status when control_handle()? or U3VRemoteDevice::new(..)?
\* returns early: the assignment below them is not reached.
open_early_status(res, cur) == cur

\* A close that maps an I/O error to Unknown.
close_status_io_unknown(res) ==
    CASE res = "Ok" -> "ReadWrite"
      [] OTHER      -> "Unknown"

\* close: `self.current_status = match res { .. }`
close_status(res) ==
    CASE res = "Ok" -> "ReadWrite"
      [] res = "Io" -> "NoAccess"
      [] OTHER      -> "Unknown"

\* A close that returns what the underlying close returned.
close_ret_propagating(res) == res

\* close: the value returned, Ok(()) whatever `res` is.
close_ret(res) == "Ok"

\* A close that reflects the new status into the register.
close_reg_reflecting(reg, st) == DeviceAccessStatus_as_u32(st)

\* open / close: DeviceAccessStatusReg afterwards; neither writes to vm.
close_reg(reg, st) == reg

\* reflect_status: vm.write::<DeviceAccessStatusReg>(current_status as u32)
reflect_reg(st) == DeviceAccessStatus_as_u32(st)

\* vm.read_raw(address..address + len) / vm.write_raw(address, data) for one
\* byte: the range check against the memory.
raw_access(a) == IF a + 1 > VmSize THEN "InvalidAddress" ELSE "Ok"

\* The record of an operation; seq alternates so that every operation shows,
\* and again tells that the operation before it was the same one.
Op(name, f, res, ch, rd, r, h) ==
    [seq |-> 1 - dOp.seq, name |-> name, flag |-> f, res |-> res, ch |-> ch,
     rd |-> rd, ret |-> r, handled |-> h, again |-> (name = dOp.name)]

\* enumerate_u3v_device: U3VDeviceModule::new and initialize_vm; a module
\* whose initialize_vm fails is filtered out.
new ==
    /\ ~dExists
    /\ dOp.name \in {"none", "new"}
    /\ \E ok \in BOOLEAN :
         IF ok
         THEN /\ dExists' = TRUE
              /\ current_status' = "Unknown"
              /\ remote_device' = FALSE
              /\ vm' = [a \in VmAddrs |-> 0]
              /\ statusReg' = reflect_reg("Unknown")
              /\ lastReflected' = "Unknown"
              /\ dOp' = Op("new", "-", "-", "-", "-", "Ok", FALSE)
         ELSE /\ dOp' = Op("new", "-", "-", "-", "-", "InvalidRegisterData", FALSE)
              /\ UNCHANGED <<dExists, current_status, remote_device, vm,
                             statusReg, lastReflected>>
    /\ UNCHANGED devOpened
    /\ UNCHANGED nonDevVars

\* U3VDeviceModule::reflect_status
reflect_status ==
    /\ dExists
    /\ statusReg' = reflect_reg(current_status)
    /\ lastReflected' = current_status
    /\ dOp' = Op("reflect_status", "-", "-", "-", "-", "Unit", FALSE)
    /\ UNCHANGED <<dExists, current_status, remote_device, vm, devOpened>>
    /\ UNCHANGED nonDevVars

\* U3VDeviceModule::force_access_status
force_access_status ==
    /\ dExists
    /\ \E st \in DeviceAccessStatuses :
         /\ current_status' = st
         /\ statusReg' = reflect_reg(st)
         /\ lastReflected' = st
    /\ dOp' = Op("force_access_status", "-", "-", "-", "-", "Unit", FALSE)
    /\ UNCHANGED <<dExists, remote_device, vm, devOpened>>
    /\ UNCHANGED nonDevVars

\* U3VDeviceModule::access_status / Device::device_access_status
access_status ==
    /\ dExists
    /\ dOp' = Op("access_status", "-", "-", "-", "-",
                 DeviceAccessStatus_from_num(statusReg), FALSE)
    /\ UNCHANGED <<dExists, current_status, remote_device, statusReg, vm,
                   devOpened, lastReflected>>
    /\ UNCHANGED nonDevVars

\* Port::read of the module, for one byte at address a.
read ==
    /\ dExists
    /\ \E a \in 0..VmSize :
         dOp' = Op("read", "-", "-", "-", "-",
                   IF assert_open # "Ok" THEN assert_open ELSE raw_access(a), FALSE)
    /\ UNCHANGED <<dExists, current_status, remote_device, statusReg, vm,
                   devOpened, lastReflected>>
    /\ UNCHANGED nonDevVars

\* Port::write of the module, of one byte b at address a.
write ==
    /\ dExists
    /\ \E a \in 0..VmSize, b \in VmBytes :
         IF assert_open # "Ok"
         THEN /\ dOp' = Op("write", "-", "-", "-", "-", assert_open, FALSE)
              /\ UNCHANGED vm
         ELSE IF raw_access(a) # "Ok"
         THEN /\ dOp' = Op("write", "-", "-", "-", "-", raw_access(a), FALSE)
              /\ UNCHANGED vm
         ELSE /\ vm' = [vm EXCEPT ![a] = b]
              /\ dOp' = Op("write", "-", "-", "-", "-", "Ok", TRUE)
    /\ UNCHANGED <<dExists, current_status, remote_device, statusReg,
                   devOpened, lastReflected>>
    /\ UNCHANGED nonDevVars

\* Port::port_info / Port::xml_infos of the module, and Device::remote_device,
\* which unwraps self.remote_device.
port_query ==
    /\ dExists
    /\ \E name \in {"port_info", "xml_infos", "remote_device"} :
         dOp' = Op(name, "-", "-", "-", "-",
                   IF assert_open # "Ok" THEN assert_open
                   ELSE IF name = "remote_device" /\ ~remote_device THEN "Panic"
                   ELSE "Ok",
                   FALSE)
    /\ UNCHANGED <<dExists, current_status, remote_device, statusReg, vm,
                   devOpened, lastReflected>>
    /\ UNCHANGED nonDevVars

\* Device::open
open ==
    /\ dExists
    /\ \E f \in AccessFlags :
         LET pre == open_precheck(f, is_opened) IN
         IF pre # "Proceed"
         THEN /\ dOp' = Op("open", f, "-", "-", "-", pre, FALSE)
              /\ UNCHANGED <<current_status, remote_device, devOpened>>
         ELSE \E res \in DeviceResults, ch \in HandleResults :
              /\ devOpened' = (IF res = "Ok" THEN TRUE ELSE devOpened)
              /\ IF ch # "Ok"
                 THEN /\ dOp' = Op("open", f, res, ch, "-", ch, FALSE)
                      /\ current_status' = open_early_status(res, current_status)
                      /\ UNCHANGED remote_device
                 ELSE \E rd \in HandleResults :
                      IF rd # "Ok"
                      THEN /\ dOp' = Op("open", f, res, ch, rd, rd, FALSE)
                           /\ current_status' =
                                  open_early_status(res, current_status)
                           /\ UNCHANGED remote_device
                      ELSE /\ dOp' = Op("open", f, res, ch, rd, res, FALSE)
                           /\ remote_device' = TRUE
                           /\ current_status' = open_status(res)
    /\ statusReg' = close_reg(statusReg, current_status')
    /\ UNCHANGED <<dExists, vm, lastReflected>>
    /\ UNCHANGED nonDevVars

\* The body of Device::close.
close_body(name) ==
    \E res \in DeviceResults :
        /\ devOpened' = (IF res = "Ok" THEN FALSE ELSE devOpened)
        /\ current_status' = close_status(res)
        /\ remote_device' = FALSE
        /\ statusReg' = close_reg(statusReg, current_status')
        /\ dOp' = Op(name, "-", res, "-", "-", close_ret(res), FALSE)

\* Device::close
close ==
    /\ dExists
    /\ close_body("close")
    /\ UNCHANGED <<dExists, vm, lastReflected>>
    /\ UNCHANGED nonDevVars

\* impl Drop for U3VDeviceModule: self.close().ok()
drop_module ==
    /\ dExists
    /\ close_body("drop")
    /\ dExists' = FALSE
    /\ UNCHANGED <<vm, lastReflected>>
    /\ UNCHANGED nonDevVars

DevNext ==
    \/ new
    \/ reflect_status
    \/ force_access_status
    \/ access_status
    \/ read
    \/ write
    \/ port_query
    \/ open
    \/ close
    \/ drop_module

\* The device module alone: the pool stays as it starts.
DevSpec == Init /\ [][DevNext]_vars

----------------------------------------------------------------------------
\* Properties

InSeq(p, t) == \E i \in 1..Len(p) : p[i] = t

\* C1: completions are reaped in submission order: pending is always in
\* submission order, every transfer that leaves pending is its head, has its
\* flag set and leaves the rest as it was; so a later transfer that has
\* completed is never reaped while an earlier one is pending.
C1_ReapFifo ==
    /\ [](\A i, j \in 1..Len(pending) : i < j => pending[i] < pending[j])
    /\ [][\A t \in Transfers :
            (InSeq(pending, t) /\ ~InSeq(pending', t)) =>
                /\ t = Head(pending)
                /\ pending' = Tail(pending)
                /\ flag[t]
                /\ \A u \in Transfers : InSeq(pending, u) => t <= u]_vars

\* C1 witness: a poll timed out on an incomplete head while the transfer
\* behind it had already completed, and left both in place.
C1_Witness ==
    /\ op = "poll" /\ Returned /\ pcRes = "OkFalse"
    /\ Len(pending) >= 2
    /\ ~flag[pending[1]] /\ flag[pending[2]] /\ drv[pending[2]] = "done"

\* C2: a freed transfer is never in the driver's hands: its submission
\* failed (it never was in flight) or its callback has run and set the flag.
C2_FreedNotInDriver ==
    \A t \in Transfers :
        xfer[t] = "freed" =>
            \/ drv[t] = "idle"
            \/ drv[t] = "done" /\ flag[t]

\* C2 witness: one transfer freed after a failed submission, one freed after
\* its completion, and one still in flight in the pool.
C2_Witness ==
    \E t, u, v \in Transfers :
        /\ xfer[t] = "freed" /\ drv[t] = "idle"
        /\ xfer[u] = "freed" /\ drv[u] = "done"
        /\ xfer[v] = "alloc" /\ drv[v] = "inflight" /\ InSeq(pending, v)

\* C3: during and after a cancel_all the cancellations requested so far are
\* those of the last transfers of pending, last submitted first, and when
\* cancel_all returns every pending transfer has had its request.
C3_CancelReverseOrder ==
    op = "cancel_all" =>
        /\ pending = pendingAtCall
        /\ Len(cancelLog) <= Len(pending)
        /\ \A k \in 1..Len(cancelLog) :
              /\ cancelLog[k].id = pending[Len(pending) - k + 1]
              /\ \A u \in Transfers :
                    (InSeq(pending, u) /\ u > cancelLog[k].id) =>
                        \E j \in 1..(k - 1) : cancelLog[j].id = u
        /\ (pc # "cancel" /\ cancelledAll) => Len(cancelLog) = Len(pending)

\* C3 witness: a cancel_all over three pending transfers has returned.
C3_Witness ==
    /\ op = "cancel_all" /\ Returned /\ cancelledAll
    /\ Len(cancelLog) >= 2
    /\ cancelLog[1].id > cancelLog[2].id

\* C4: cancel_all returns () whatever libusb_cancel_transfer answered, leaves
\* pending as it was, and a second cancel_all right after it changes nothing.
C4_CancelAllInfallibleIdempotent ==
    (op = "cancel_all" /\ Returned /\ cancelledAll) =>
        /\ ret = RetUnit
        /\ pending = pendingAtCall
        /\ cancel_all_effect(drv, cancelling, pending, 1) = cancelling

\* C4 witness: a cancel_all has returned that met a completed transfer and
\* one already being cancelled (both LIBUSB_ERROR_NOT_FOUND) and one it
\* cancelled itself.
C4_Witness ==
    /\ op = "cancel_all" /\ Returned /\ cancelledAll
    /\ \E i, j \in 1..Len(cancelLog) :
          /\ cancelLog[i].errno = LIBUSB_ERROR_NOT_FOUND
          /\ drv[cancelLog[i].id] = "done"
          /\ cancelLog[j].errno = LIBUSB_ERROR_NOT_FOUND
          /\ cancelling[cancelLog[j].id]

\* The pool has been drained after a cancel_all.
Drained == cancelledAll /\ Returned /\ is_empty

\* C5: once the pool is empty after cancel_all and a drain (by the caller's
\* polls or by Drop), no completion callback fires any more.
C5_NoCallbackAfterDrain ==
    /\ [](pc = "dropped" => is_empty)
    /\ [][Drained => \A t \in Transfers :
                        /\ ~(drv[t] = "inflight" /\ drv'[t] = "done")
                        /\ (t < nextId => flag'[t] = flag[t])]_vars

\* C5 witness: the pool is drained and its last poll reaped a cancelled transfer.
C5_Witness ==
    /\ Drained
    /\ op = "poll" /\ ret = StreamError_from("Cancelled")
    /\ \E t \in Transfers : xfer[t] = "freed" /\ drv[t] = "done"

C7_FlagLivesWithTransfer ==
    \A t \in Transfers :
        /\ xfer[t] = "unalloc" => flagHeap[t] = "none"
        /\ xfer[t] = "alloc" => flagHeap[t] = "live"
        /\ xfer[t] = "freed" => flagHeap[t] = "freed"

\* C8: a poll entered with nothing pending has returned NoTransfersPending
\* at once, never entering poll_completed, and the pool is still empty.
C8_PollEmpty ==
    (op = "poll" /\ pendingAtCall = <<>>) =>
        /\ Returned
        /\ ret = StreamError_from("NoTransfersPending")
        /\ pending = <<>>
        /\ polled = 0 /\ pcRes = "None"

\* C8 witness: such a poll, on a pool that had held transfers before.
C8_Witness ==
    /\ op = "poll" /\ pendingAtCall = <<>> /\ Returned
    /\ ret.err = "NoTransfersPending"
    /\ nextId > 1

\* C9: a poll whose poll_completed gave Ok(false) returns Timeout and leaves
\* pending as it was, the polled transfer still allocated at its head.
C9_PollTimeout ==
    (op = "poll" /\ Returned /\ pcRes = "OkFalse") =>
        /\ ret = StreamError_from("Timeout")
        /\ pending = pendingAtCall
        /\ front(pending) = polled
        /\ xfer[polled] = "alloc"

\* C9 witness: a poll over two pending transfers ran into its deadline.
C9_Witness ==
    /\ op = "poll" /\ Returned /\ pcRes = "OkFalse"
    /\ expired /\ ~flagAtRet /\ err = LIBUSB_SUCCESS
    /\ Len(pending) >= 2

\* C10 as stated: poll_completed returns Ok(true) iff the flag is set, and
\* an error iff event handling reported an error other than timeout.
C10_Original ==
    pcRes # "None" =>
        /\ (pcRes = "OkTrue") <=> flagAtRet
        /\ (pcRes = "Err") <=> (err \notin {LIBUSB_SUCCESS, LIBUSB_ERROR_TIMEOUT})

\* C10 amended: poll_completed returns Ok(true) iff event handling reported
\* no error and the flag is set when it is loaded after the loop; Ok(false)
\* iff event handling reported LIBUSB_ERROR_TIMEOUT, or reported no error and
\* the deadline passed with the flag unset; an error iff event handling
\* reported any other error.  In the last two cases the flag may be set.
C10_PollCompleted ==
    pcRes # "None" =>
        /\ (pcRes = "OkTrue") <=> (err = LIBUSB_SUCCESS /\ flagAtRet)
        /\ (pcRes = "OkFalse") <=>
              \/ err = LIBUSB_ERROR_TIMEOUT
              \/ err = LIBUSB_SUCCESS /\ ~flagAtRet /\ expired
        /\ (pcRes = "Err") <=> (err \notin {LIBUSB_SUCCESS, LIBUSB_ERROR_TIMEOUT})

\* C10 witness: all three results occur with the flag set by a concurrent
\* callback; here Ok(false) on LIBUSB_ERROR_TIMEOUT with the flag set.
C10_Witness ==
    /\ pcRes = "OkFalse" /\ err = LIBUSB_ERROR_TIMEOUT /\ flagAtRet

\* C37: cancel_all takes nothing out of the pool: no step of its loop
\* changes pending, a cancel request changes neither the flag nor the status
\* of a transfer, and a transfer leaves pending only when a poll reaps it,
\* which then reports Cancelled for a transfer completed as cancelled and
\* the result of its own status for any other.
C37_CancelAllRemovesNothing ==
    [][/\ pc = "cancel" => pending' = pending
       /\ ci' = ci + 1 => (flag' = flag /\ status' = status /\ drv' = drv)
       /\ \A t \in Transfers :
             (InSeq(pending, t) /\ ~InSeq(pending', t)) =>
                 /\ op = "poll"
                 /\ pcRes' = "OkTrue"
                 /\ status[t] = "CANCELLED" => ret' = StreamError_from("Cancelled")
                 /\ status[t] = "COMPLETED" => ret' = RetOk
                 /\ status[t] \notin {"CANCELLED", "COMPLETED"} =>
                        (ret'.tag # "Ok" /\ ret'.err # "Cancelled")]_vars

\* C37 witness: after a cancel_all over at least two transfers a poll has
\* reaped the head one, reporting Cancelled, and the rest is still pending.
C37_Witness ==
    /\ op = "poll" /\ Returned /\ cancelledAll
    /\ pcRes = "OkTrue"
    /\ ret = StreamError_from("Cancelled")
    /\ Len(pending) >= 1
    /\ Len(pendingAtCall) = Len(pending) + 1

\* C38: pending changes only by a successful submit, which appends the new
\* transfer at the tail, and by a poll whose poll_completed saw the flag of
\* the head transfer set, which removes that head whatever its status; a
\* failed submit, a poll on an empty pool, a poll that times out and a poll
\* whose event handling failed leave pending as it was.
C38_PendingChanges ==
    [][/\ pending' # pending =>
             \/ /\ op' = "submit" /\ ret' = RetOk
                /\ pending' = Append(pending, nextId)
             \/ /\ op = "poll" /\ pc = "pc_match"
                /\ pcRes' = "OkTrue" /\ flag[Head(pending)]
                /\ pending' = Tail(pending)
       /\ nextId' # nextId =>
             IF ret' = RetOk THEN pending' = Append(pending, nextId)
                             ELSE pending' = pending /\ drv' = drv
       /\ (op = "poll" /\ pc = "pc_match" /\ pc' # "pc_match") =>
             /\ (flag[polled] /\ err = LIBUSB_SUCCESS) =>
                    (polled = Head(pending) /\ pending' = Tail(pending))
             /\ ~(flag[polled] /\ err = LIBUSB_SUCCESS) =>
                    (pending' = pending /\ ret'.tag # "Ok"
                     /\ IF err \in {LIBUSB_SUCCESS, LIBUSB_ERROR_TIMEOUT}
                        THEN ret'.err = "Timeout"
                        ELSE ret'.err = from_libusb_error(err))
       /\ (pc = "idle" /\ op' = "poll" /\ ret'.err = "NoTransfersPending") =>
             (pending = <<>> /\ pending' = <<>>)]_vars

\* C38 witness: a poll has removed a head transfer that completed with an
\* error status (a stall), leaving the one submitted after it.
C38_Witness ==
    /\ op = "poll" /\ Returned
    /\ pcRes = "OkTrue" /\ flagAtRet
    /\ ret = StreamError_from("Stall")
    /\ pendingAtCall = <<1, 2>>
    /\ pending = <<2>>

----------------------------------------------------------------------------
\* Properties of the device module

\* The step is the operation `name` of the device module.
DevStep(name) == dOp'.seq # dOp.seq /\ dOp'.name = name

\* C11: open(Exclusive) on a module that is not opened, whose device opens,
\* hands out its control handle and lets the RemoteDevice be built, returns
\* Ok, sets current_status to OpenReadWrite and installs the RemoteDevice.
C11_OpenOk ==
    [][(/\ DevStep("open")
        /\ dOp'.flag = "Exclusive"
        /\ ~is_opened
        /\ dOp'.res = "Ok" /\ dOp'.ch = "Ok" /\ dOp'.rd = "Ok")
       => (/\ dOp'.ret = "Ok"
           /\ current_status' = "OpenReadWrite"
           /\ remote_device')]_vars

\* A successful open(Exclusive) has opened the module.
C11_Witness ==
    /\ dOp.name = "open" /\ dOp.flag = "Exclusive"
    /\ dOp.res = "Ok" /\ dOp.ch = "Ok" /\ dOp.rd = "Ok"
    /\ dOp.ret = "Ok"
    /\ current_status = "OpenReadWrite"
    /\ remote_device

\* C12: open(Exclusive) on an opened module returns ResourceInUse and changes
\* nothing: current_status and the RemoteDevice stay, and the underlying
\* device is not opened again.
C12_OpenInUse ==
    [][(DevStep("open") /\ dOp'.flag = "Exclusive" /\ is_opened)
       => (/\ dOp'.ret = "ResourceInUse"
           /\ dOp'.res = "-"
           /\ UNCHANGED <<current_status, remote_device, devOpened>>)]_vars

\* A second open(Exclusive) was refused on a module opened by the first.
C12_Witness ==
    /\ dOp.name = "open" /\ dOp.flag = "Exclusive" /\ dOp.again
    /\ dOp.ret = "ResourceInUse"
    /\ current_status = "OpenReadWrite"
    /\ remote_device

\* C13: open with a flag other than Exclusive returns AccessDenied in every
\* state, opened or not, and leaves current_status and the RemoteDevice
\* unchanged.
C13_OpenNonExclusive ==
    [][(DevStep("open") /\ dOp'.flag # "Exclusive")
       => (/\ dOp'.ret = "AccessDenied"
           /\ UNCHANGED <<current_status, remote_device>>)]_vars

\* A non-Exclusive open was refused with AccessDenied on an opened module.
C13_Witness ==
    /\ dOp.name = "open" /\ dOp.flag # "Exclusive"
    /\ dOp.ret = "AccessDenied"
    /\ is_opened
    /\ remote_device

\* C14: when open(Exclusive) on a module that is not opened fails,
\* current_status afterwards is NoAccess for an I/O failure and Busy for an
\* access conflict, whichever call inside open failed.
C14_OpenFailureStatus ==
    [][(/\ DevStep("open")
        /\ dOp'.flag = "Exclusive"
        /\ ~is_opened
        /\ dOp'.ret # "Ok")
       => (/\ dOp'.ret = "Io" => current_status' = "NoAccess"
           /\ dOp'.ret = "AccessDenied" => current_status' = "Busy")]_vars

\* C15: an open that returns an error never moves the module into an opened
\* state: a module that was not opened is not opened afterwards, and
\* current_status does not become OpenReadWrite, at every failure point.
C15_FailedOpenNotOpened ==
    [][(DevStep("open") /\ dOp'.ret # "Ok")
       => (/\ ~is_opened => ~status_is_opened(current_status')
           /\ current_status # "OpenReadWrite"
                  => current_status' # "OpenReadWrite")]_vars

\* open failed while building the RemoteDevice, after the underlying device
\* had been opened: the module is not opened.
C15_Witness ==
    /\ dOp.name = "open" /\ dOp.flag = "Exclusive"
    /\ dOp.res = "Ok" /\ dOp.ch = "Ok" /\ dOp.rd = "Io"
    /\ dOp.ret = "Io"
    /\ devOpened
    /\ ~is_opened

\* C16: close drops the RemoteDevice and sets current_status to ReadWrite
\* when the underlying close succeeds, to NoAccess when it fails with an I/O
\* error and to Unknown for any other failure.
C16_Close ==
    [][DevStep("close")
       => (/\ ~remote_device'
           /\ dOp'.res = "Ok" => current_status' = "ReadWrite"
           /\ dOp'.res = "Io" => current_status' = "NoAccess"
           /\ dOp'.res \notin {"Ok", "Io"} => current_status' = "Unknown")]_vars

\* close on an opened module whose underlying close failed with an I/O error.
C16_Witness ==
    /\ dOp.name = "close" /\ dOp.res = "Io"
    /\ devOpened
    /\ current_status = "NoAccess"
    /\ ~remote_device

\* The step is a close, explicit or by Drop, that follows a close.
CloseAfterClose ==
    /\ dOp.name = "close"
    /\ DevStep("close") \/ DevStep("drop")

\* C17 as stated: the second of two closes in a row returns what the first
\* returned and leaves current_status and the absent RemoteDevice as the
\* first left them.
C17_Original ==
    [][CloseAfterClose
       => (/\ dOp'.ret = dOp.ret
           /\ current_status' = current_status
           /\ remote_device' = remote_device)]_vars

\* C17: both of two closes in a row return Ok and leave the RemoteDevice
\* absent; current_status after the second is the one after the first when
\* the underlying close reports the same outcome both times.
C17_CloseTwice ==
    [][CloseAfterClose
       => (/\ dOp.ret = "Ok" /\ dOp'.ret = "Ok"
           /\ ~remote_device /\ ~remote_device'
           /\ dOp'.res = dOp.res => current_status' = current_status)]_vars

\* A second close in a row, on a module never opened since the first.
C17_Witness ==
    /\ dOp.name = "close" /\ dOp.again
    /\ dOp.ret = "Ok"
    /\ current_status = "ReadWrite"
    /\ ~remote_device

\* C18: open and close leave DeviceAccessStatusReg unchanged, and
\* access_status returns the status as of the most recent reflect_status,
\* force_access_status or initialisation.
C18_RegOnlyByReflect ==
    [][/\ (DevStep("open") \/ DevStep("close")) => statusReg' = statusReg
       /\ DevStep("access_status") => dOp'.ret = lastReflected]_vars

\* access_status returned the reflected status while current_status, set by
\* an open since, is OpenReadWrite.
C18_Witness ==
    /\ dOp.name = "access_status"
    /\ dOp.ret = lastReflected
    /\ current_status = "OpenReadWrite"
    /\ lastReflected # "OpenReadWrite"

\* The port operations of the module, and remote_device.
PortOps == {"read", "write", "port_info", "xml_infos", "remote_device"}

\* C19: read, write, port_info, xml_infos and remote_device return
\* NotInitialized whenever the module is not opened; a rejected write leaves
\* the memory unchanged and does not run the event handler.
C19_NotOpenedRejected ==
    [][((\E n \in PortOps : DevStep(n)) /\ ~is_opened)
       => (/\ dOp'.ret = "NotInitialized"
           /\ vm' = vm
           /\ ~dOp'.handled)]_vars

\* A write was rejected on a module closed after an accepted write.
C19_Witness ==
    /\ dOp.name = "write"
    /\ dOp.ret = "NotInitialized"
    /\ ~dOp.handled
    /\ ~is_opened
    /\ vm[0] = 1

\* C20: a module produced by enumeration has status ReadWrite before its
\* first open.
C20_EnumeratedReadWrite ==
    (dOp.name = "new" /\ dOp.ret = "Ok") => current_status = "ReadWrite"

\* C35: in every state reached by open, close, reflect_status and
\* force_access_status, an opened module holds a RemoteDevice, and
\* remote_device() does not panic on its unwrap.
C35_OpenedHasRemoteDevice ==
    /\ (dExists /\ is_opened) => remote_device
    /\ dOp.name = "remote_device" => dOp.ret # "Panic"

\* C36: open and close keep "a RemoteDevice is held only while the module is
\* opened": from a state where a present RemoteDevice implies is_opened(),
\* either call leads to such a state again, whatever the underlying device
\* open or close returns.
C36_RemoteDeviceOnlyWhileOpened ==
    [][(/\ DevStep("open") \/ DevStep("close")
        /\ remote_device => is_opened)
       => (remote_device' => is_opened')]_vars

----------------------------------------------------------------------------
\* Part 3: the access rights of the emulated memory: operations

\* enum AccessRight
AccessRights == {"NA", "RO", "WO", "RW"}

\* Bitwise and / or of two naturals, and the u8 operations `<<`, `>>`, `!`.
RECURSIVE BitAnd(_, _)
BitAnd(x, y) ==
    IF x = 0 \/ y = 0 THEN 0
    ELSE (x % 2) * (y % 2) + 2 * BitAnd(x \div 2, y \div 2)

RECURSIVE BitOr(_, _)
BitOr(x, y) ==
    IF x = 0 THEN y
    ELSE IF y = 0 THEN x
    ELSE (IF x % 2 = 1 \/ y % 2 = 1 THEN 1 ELSE 0)
             + 2 * BitOr(x \div 2, y \div 2)

Shl8(x, k) == (x * (2 ^ k)) % 256
Shr8(x, k) == x \div (2 ^ k)
Not8(x) == 255 - x

\* AccessRight::as_num
as_num(ar) ==
    CASE ar = "NA" -> 0
      [] ar = "RO" -> 1
      [] ar = "WO" -> 2
      [] ar = "RW" -> 3

\* AccessRight::from_num
from_num(num) ==
    CASE num = 0 -> "NA"
      [] num = 1 -> "RO"
      [] num = 2 -> "WO"
      [] num = 3 -> "RW"

\* An is_readable that looks at the bit of is_writable.
is_readable_high_bit(ar) == Shr8(as_num(ar), 1) = 1

\* AccessRight::is_readable: as_num() & 0b1 == 1
is_readable(ar) == BitAnd(as_num(ar), 1) = 1

\* AccessRight::is_writable: as_num() >> 1 == 1
is_writable(ar) == Shr8(as_num(ar), 1) = 1

\* A meet whose RO arm does not look at rhs.
meet_ro_keeps(self, rhs) ==
    CASE self = "RW" -> (IF rhs = "RW" THEN "RW" ELSE rhs)
      [] self = "RO" -> self
      [] self = "WO" -> (IF is_writable(rhs) THEN self ELSE "NA")
      [] self = "NA" -> "NA"

\* AccessRight::meet
meet(self, rhs) ==
    CASE self = "RW" -> (IF rhs = "RW" THEN "RW" ELSE rhs)
      [] self = "RO" -> (IF is_readable(rhs) THEN self ELSE "NA")
      [] self = "WO" -> (IF is_writable(rhs) THEN self ELSE "NA")
      [] self = "NA" -> "NA"

\* MemoryProtection::new: the length of inner.
inner_len(size) == IF size = 0 THEN 0 ELSE (size - 1) \div 4 + 1

\* A set_access_right that stores the new bits over the whole cell.
set_access_right_whole_cell(inn, address, ar) ==
    LET offset == (address % 4) * 2
    IN  [inn EXCEPT ![address \div 4] = Shl8(as_num(ar), offset)]

\* A set_access_right that does not clear the two bits first.
set_access_right_no_mask(inn, address, ar) ==
    LET block == inn[address \div 4]
        offset == (address % 4) * 2
    IN  [inn EXCEPT ![address \div 4] = BitOr(block, Shl8(as_num(ar), offset))]

\* MemoryProtection::set_access_right: inner afterwards.
set_access_right(inn, address, ar) ==
    LET block == inn[address \div 4]
        offset == (address % 4) * 2
        mask == Not8(Shl8(3, offset))
    IN  [inn EXCEPT ![address \div 4] =
             BitOr(BitAnd(block, mask), Shl8(as_num(ar), offset))]

\* MemoryProtection::access_right
access_right(inn, address) ==
    LET block == inn[address \div 4]
        offset == (address % 4) * 2
    IN  from_num(BitAnd(Shr8(block, offset), 3))

\* The fold of access_right_with_range over a..b, from the accumulator acc.
RECURSIVE fold_meet(_, _, _, _)
fold_meet(inn, a, b, acc) ==
    IF a >= b THEN acc
    ELSE fold_meet(inn, a + 1, b, meet(acc, access_right(inn, a)))

\* An access_right_with_range that gives the right of the first byte.
access_right_with_range_first(inn, a, b) ==
    IF a >= b THEN "RW" ELSE access_right(inn, a)

\* MemoryProtection::access_right_with_range, for the range a..b
access_right_with_range(inn, a, b) == fold_meet(inn, a, b, "RW")

\* A verify_address that accepts the address memory_size.
verify_address_inclusive(size, address) ==
    IF size < address THEN "InvalidAddress" ELSE "Ok"

\* MemoryProtection::verify_address
verify_address(size, address) ==
    IF size <= address THEN "InvalidAddress" ELSE "Ok"

\* MemoryProtection::verify_address_with_range, for the range a..b
RECURSIVE verify_address_with_range(_, _, _)
verify_address_with_range(size, a, b) ==
    IF a >= b THEN "Ok"
    ELSE IF verify_address(size, a) # "Ok" THEN verify_address(size, a)
    ELSE verify_address_with_range(size, a + 1, b)

\* MemoryRead::read_raw of a memory, for the range a..b: the range check, the
\* rights check, then the slice of the bytes, which panics past the end.
read_raw_ret(size, inn, a, b) ==
    IF verify_address_with_range(size, a, b) # "Ok"
    THEN verify_address_with_range(size, a, b)
    ELSE IF ~is_readable(access_right_with_range(inn, a, b))
    THEN "AddressNotReadable"
    ELSE IF b > size THEN "Panic"
    ELSE "Ok"

\* The previous call of the memory has returned.
MemIdle == mRes = NoRes

\* The result of a call on the range a..b (or the address a).
Res(name, a, b, r) == [name |-> name, a |-> a, b |-> b, ret |-> r]

\* MemoryProtection::new
MemoryProtection_new ==
    /\ ~pExists
    /\ MemIdle
    /\ \E size \in 0..MemSize :
         /\ memory_size' = size
         /\ inner' = [c \in 0..(inner_len(size) - 1) |-> 0]
         /\ rights' = [i \in 0..(size - 1) |-> "NA"]
    /\ pExists' = TRUE
    /\ UNCHANGED mRes
    /\ UNCHANGED nonMemVars

\* MemoryProtection::set_access_right on an address of the memory
protection_set ==
    /\ pExists
    /\ MemIdle
    /\ \E address \in 0..(memory_size - 1), ar \in AccessRights :
         /\ inner' = set_access_right(inner, address, ar)
         /\ rights' = [rights EXCEPT ![address] = ar]
    /\ UNCHANGED <<pExists, memory_size, mRes>>
    /\ UNCHANGED nonMemVars

\* MemoryProtection::access_right on an address of the memory
protection_get ==
    /\ pExists
    /\ MemIdle
    /\ \E address \in 0..(memory_size - 1) :
         mRes' = Res("access_right", address, address + 1,
                     access_right(inner, address))
    /\ UNCHANGED <<pExists, memory_size, inner, rights>>
    /\ UNCHANGED nonMemVars

\* MemoryProtection::access_right_with_range on a range of the memory
protection_get_range ==
    /\ pExists
    /\ MemIdle
    /\ \E a \in 0..memory_size, b \in 0..memory_size :
         /\ a <= b
         /\ mRes' = Res("access_right_with_range", a, b,
                        access_right_with_range(inner, a, b))
    /\ UNCHANGED <<pExists, memory_size, inner, rights>>
    /\ UNCHANGED nonMemVars

\* MemoryProtection::verify_address
protection_verify ==
    /\ pExists
    /\ MemIdle
    /\ \E address \in 0..(memory_size + 1) :
         mRes' = Res("verify_address", address, address + 1,
                     verify_address(memory_size, address))
    /\ UNCHANGED <<pExists, memory_size, inner, rights>>
    /\ UNCHANGED nonMemVars

\* MemoryProtection::verify_address_with_range
protection_verify_range ==
    /\ pExists
    /\ MemIdle
    /\ \E a \in 0..(memory_size + 1), b \in 0..(memory_size + 1) :
         /\ a <= b
         /\ mRes' = Res("verify_address_with_range", a, b,
                        verify_address_with_range(memory_size, a, b))
    /\ UNCHANGED <<pExists, memory_size, inner, rights>>
    /\ UNCHANGED nonMemVars

\* MemoryRead::read_raw
memory_read_raw ==
    /\ pExists
    /\ MemIdle
    /\ \E a \in 0..(memory_size + 1), b \in 0..(memory_size + 1) :
         /\ a <= b
         /\ mRes' = Res("read_raw", a, b,
                        read_raw_ret(memory_size, inner, a, b))
    /\ UNCHANGED <<pExists, memory_size, inner, rights>>
    /\ UNCHANGED nonMemVars

\* AccessRight::meet, applied to three rights in the ways the laws of the
\* algebra combine them.
meet_call ==
    /\ MemIdle
    /\ \E x \in AccessRights, y \in AccessRights, z \in AccessRights :
         mRes' = [name |-> "meet", x |-> x, y |-> y, z |-> z,
                  xy |-> meet(x, y), yx |-> meet(y, x),
                  xy_z |-> meet(meet(x, y), z), x_yz |-> meet(x, meet(y, z)),
                  xx |-> meet(x, x)]
    /\ UNCHANGED <<pExists, memory_size, inner, rights>>
    /\ UNCHANGED nonMemVars

\* The call in progress returns to its caller.
memory_return ==
    /\ ~MemIdle
    /\ mRes' = NoRes
    /\ UNCHANGED <<pExists, memory_size, inner, rights>>
    /\ UNCHANGED nonMemVars

MemNext ==
    \/ MemoryProtection_new
    \/ protection_set
    \/ protection_get
    \/ protection_get_range
    \/ protection_verify
    \/ protection_verify_range
    \/ memory_read_raw
    \/ meet_call
    \/ memory_return

\* The access rights alone: the pool and the device module stay as they start.
MemSpec == Init /\ [][MemNext]_vars

----------------------------------------------------------------------------
\* Properties of the access rights

\* C21: meet is commutative, associative and idempotent over the four
\* rights, meet(RW, x) = x and meet(NA, x) = NA.
C21_MeetAlgebra ==
    mRes.name = "meet"
    => (/\ mRes.xy = mRes.yx
        /\ mRes.xy_z = mRes.x_yz
        /\ mRes.xx = mRes.x
        /\ mRes.x = "RW" => mRes.xy = mRes.y
        /\ mRes.x = "NA" => mRes.xy = "NA")

\* meet was applied to RO and WO, both ways, and gave NA.
C21_Witness ==
    /\ mRes.name = "meet"
    /\ mRes.x = "RO" /\ mRes.y = "WO"
    /\ mRes.xy = "NA" /\ mRes.yx = "NA"

\* The rights of the memory-protection scenario: [RO, RW, NA, WO, RO].
ExampleRights ==
    /\ memory_size >= 5
    /\ rights[0] = "RO" /\ rights[1] = "RW" /\ rights[2] = "NA"
    /\ rights[3] = "WO" /\ rights[4] = "RO"

\* The two bits of the right last set for address i, NA = 00 past the end,
\* shifted to the place of i in its cell.
CellBits(i) ==
    IF i < memory_size
    THEN (CASE rights[i] = "NA" -> 0 [] rights[i] = "RO" -> 1
            [] rights[i] = "WO" -> 2 [] rights[i] = "RW" -> 3) * (4 ^ (i % 4))
    ELSE 0

\* C22: after any sequence of set_access_right calls on addresses below
\* memory_size, access_right(i) is the right last set for i, NA if none;
\* inner has one cell per four bytes and cell i / 4 holds the two bits of
\* byte i at position (i % 4) * 2.
C22_AccessRightIsLastSet ==
    pExists
    => (/\ DOMAIN inner = 0..((memory_size + 3) \div 4 - 1)
        /\ \A i \in 0..(memory_size - 1) : access_right(inner, i) = rights[i]
        /\ \A c \in DOMAIN inner :
             inner[c] = CellBits(4 * c) + CellBits(4 * c + 1)
                        + CellBits(4 * c + 2) + CellBits(4 * c + 3)
        /\ mRes.name = "access_right" => mRes.ret = rights[mRes.a])

\* access_right(4) gave RO, from the second cell, with the rights of the
\* scenario set.
C22_Witness ==
    /\ pExists /\ memory_size = 5
    /\ ExampleRights
    /\ mRes.name = "access_right" /\ mRes.a = 4 /\ mRes.ret = "RO"

\* C23: access_right_with_range is readable iff every byte of the range is
\* readable and writable iff every byte is writable (the fold of meet from
\* RW); with the rights [RO, RW, NA, WO, RO] it gives RO for 0..2, NA for
\* 2..4 and NA for 3..5.
C23_RangeIsFold ==
    mRes.name = "access_right_with_range"
    => (LET range == mRes.a..(mRes.b - 1) IN
        /\ mRes.ret \in {"RO", "RW"}
               <=> \A i \in range : rights[i] \in {"RO", "RW"}
        /\ mRes.ret \in {"WO", "RW"}
               <=> \A i \in range : rights[i] \in {"WO", "RW"}
        /\ ExampleRights
               => (/\ (mRes.a = 0 /\ mRes.b = 2) => mRes.ret = "RO"
                   /\ (mRes.a = 2 /\ mRes.b = 4) => mRes.ret = "NA"
                   /\ (mRes.a = 3 /\ mRes.b = 5) => mRes.ret = "NA"))

\* access_right_with_range(3..5) gave NA with the rights of the scenario.
C23_Witness ==
    /\ ExampleRights
    /\ mRes.name = "access_right_with_range"
    /\ mRes.a = 3 /\ mRes.b = 5
    /\ mRes.ret = "NA"

\* C24: verify_address(a) gives InvalidAddress iff a >= memory_size, and
\* verify_address_with_range succeeds iff every address of the range is
\* below memory_size.
C24_VerifyAddress ==
    /\ mRes.name = "verify_address"
       => (/\ mRes.ret \in {"Ok", "InvalidAddress"}
           /\ mRes.ret = "InvalidAddress" <=> mRes.a >= memory_size)
    /\ mRes.name = "verify_address_with_range"
       => (mRes.ret = "Ok"
               <=> \A i \in mRes.a..(mRes.b - 1) : i < memory_size)

\* verify_address(5) failed on a protection of size 5.
C24_Witness ==
    /\ memory_size = 5
    /\ mRes.name = "verify_address" /\ mRes.a = 5
    /\ mRes.ret = "InvalidAddress"

\* C25: read_raw(a..b) succeeds iff b <= memory_size and every byte of
\* [a, b) is readable; it gives InvalidAddress when the range leaves the
\* memory and AddressNotReadable when some byte of a range inside the
\* memory is not readable.
C25_ReadRaw ==
    mRes.name = "read_raw"
    => (LET range == mRes.a..(mRes.b - 1) IN
        /\ mRes.ret = "Ok"
               <=> (/\ mRes.b <= memory_size
                    /\ \A i \in range : rights[i] \in {"RO", "RW"})
        /\ (\E i \in range : i >= memory_size) => mRes.ret = "InvalidAddress"
        /\ (/\ \A i \in range : i < memory_size
            /\ \E i \in range : i < memory_size /\ rights[i] \notin {"RO", "RW"})
               => mRes.ret = "AddressNotReadable")

\* read_raw(0..2) was refused: byte 0 is readable and byte 1 is not.
C25_Witness ==
    /\ mRes.name = "read_raw" /\ mRes.a = 0 /\ mRes.b = 2
    /\ memory_size >= 2
    /\ rights[0] = "RO" /\ rights[1] = "WO"
    /\ mRes.ret = "AddressNotReadable"

\* C39: a set_access_right(i, r) that changes inner changes the access right
\* of address i, to r, and of no other address: access_right(j) is the same
\* before and after for every other j, the other addresses packed in the
\* cell of i and the unused tail of the last cell included.
C39_SetAccessRightFrame ==
    [][(pExists /\ pExists' /\ inner' # inner)
       => \E i \in 0..(memory_size - 1) :
            /\ access_right(inner', i) # access_right(inner, i)
            /\ access_right(inner', i) = rights'[i]
            /\ \A j \in 0..(4 * inner_len(memory_size) - 1) :
                  j # i => access_right(inner', j) = access_right(inner, j)]_vars

\* The four addresses of the first cell hold four different rights, three of
\* them set after the first one was.
C39_Witness ==
    /\ pExists /\ memory_size >= 4
    /\ access_right(inner, 0) = "RW"
    /\ access_right(inner, 1) = "WO"
    /\ access_right(inner, 2) = "RO"
    /\ access_right(inner, 3) = "NA"
    /\ inner[0] = 27

----------------------------------------------------------------------------
\* Part 4: typed register writes: operations

\* The values passed to a typed write: byte strings of up to RegLen + 1 bytes.
RegBytes == {0, 1}
RegData == UNION {[1..n -> RegBytes] : n \in 0..(RegLen + 1)}

\* RawRegister::range
range_of(reg) == reg.offset..(reg.offset + reg.len - 1)

\* Register::serialize succeeds: the value fits the register.
serialize_ok(data, reg) == Len(data) <= reg.len

\* Register::serialize: the value, padded with zero bytes to the length of
\* the register.
serialize(data, reg) ==
    [k \in 1..reg.len |-> IF k <= Len(data) THEN data[k] ELSE 0]

\* Register::write: the value returned.
Register_write_ret(data, reg) ==
    IF serialize_ok(data, reg) THEN "Ok" ELSE "InvalidRegisterData"

\* A Register::write that copies the leading bytes of the value before it
\* looks at the result of serialize.
Register_write_memory_eager(memory, data, reg) ==
    [i \in DOMAIN memory |->
        IF i \in range_of(reg) THEN serialize(data, reg)[i - reg.offset + 1]
        ELSE memory[i]]

\* Register::write: the memory afterwards.
Register_write_memory(memory, data, reg) ==
    IF ~serialize_ok(data, reg) THEN memory
    ELSE [i \in DOMAIN memory |->
             IF i \in range_of(reg) THEN serialize(data, reg)[i - reg.offset + 1]
             ELSE memory[i]]

\* MemoryWrite::write: the number of observers of the register notified.
write_fires(data, reg) ==
    IF Register_write_ret(data, reg) = "Ok" THEN observers[reg] ELSE 0

\* The previous typed operation has returned.
RegIdle == rOp = NoRegOp

\* MemoryWrite::register_observer
register_observer ==
    /\ RegIdle
    /\ \E reg \in Registers :
         /\ observers[reg] < MaxObservers
         /\ observers' = [observers EXCEPT ![reg] = @ + 1]
         /\ rOp' = [name |-> "register_observer", reg |-> reg, data |-> <<>>,
                    ret |-> "Unit", fired |-> 0]
    /\ UNCHANGED raw
    /\ UNCHANGED nonRegVars

\* MemoryWrite::write::<T>(data): Register::write on the bytes, then the
\* observers of T.
memory_write ==
    /\ RegIdle
    /\ \E reg \in Registers, data \in RegData :
         /\ raw' = Register_write_memory(raw, data, reg)
         /\ rOp' = [name |-> "write", reg |-> reg, data |-> data,
                    ret |-> Register_write_ret(data, reg),
                    fired |-> write_fires(data, reg)]
    /\ UNCHANGED observers
    /\ UNCHANGED nonRegVars

\* The typed operation in progress returns to its caller.
register_return ==
    /\ ~RegIdle
    /\ rOp' = NoRegOp
    /\ UNCHANGED <<raw, observers>>
    /\ UNCHANGED nonRegVars

RegNext ==
    \/ register_observer
    \/ memory_write
    \/ register_return

\* The typed writes alone.
RegSpec == Init /\ [][RegNext]_vars

\* C26: a typed write whose serialization fails returns the error, leaves
\* every byte of the memory unchanged and notifies no observer; a successful
\* one changes only bytes of the register's range.
C26_TypedWrite ==
    [][((rOp'.name = "write" /\ rOp' # rOp) \/ raw' # raw)
       => (/\ rOp'.name = "write"
           /\ Len(rOp'.data) > rOp'.reg.len
                  => (/\ rOp'.ret = "InvalidRegisterData"
                      /\ raw' = raw
                      /\ rOp'.fired = 0)
           /\ Len(rOp'.data) <= rOp'.reg.len
                  => (/\ rOp'.ret = "Ok"
                      /\ \A i \in DOMAIN raw :
                           (i < rOp'.reg.offset
                            \/ i >= rOp'.reg.offset + rOp'.reg.len)
                               => raw'[i] = raw[i]))]_vars

\* A typed write failed to serialize on a register that has an observer and
\* whose bytes an earlier write had set.
C26_Witness ==
    /\ rOp.name = "write"
    /\ rOp.ret = "InvalidRegisterData"
    /\ rOp.fired = 0
    /\ observers[rOp.reg] > 0
    /\ raw[rOp.reg.offset] = 1

----------------------------------------------------------------------------
\* Part 5: the acknowledge parser: operations

\* AckPacket::PREFIX_MAGIC, 0x43563355
PREFIX_MAGIC == 1129722709

\* u16 operator >>
Shr16(x, k) == x \div (2 ^ k)

\* u16::trailing_zeros
RECURSIVE trailing_zeros(_)
trailing_zeros(x) ==
    IF x = 0 THEN 16
    ELSE IF x % 2 = 1 THEN 0
    ELSE 1 + trailing_zeros(x \div 2)

\* WriteBytesExt::write_u16::<LE> and write_u32::<LE>
write_u16_LE(v) == <<v % 256, v \div 256>>
write_u32_LE(v) ==
    <<v % 256, (v \div 256) % 256, (v \div 65536) % 256, v \div 16777216>>

\* tests::serialize_header, with the prefix as a parameter
serialize_header(prefix, status_code, command_id, scd_len, request_id) ==
    write_u32_LE(prefix) \o write_u16_LE(status_code)
        \o write_u16_LE(command_id) \o write_u16_LE(scd_len)
        \o write_u16_LE(request_id)

\* The cursor at offset pos has n more bytes of buf to read.
CanRead(buf, pos, n) == pos + n <= Len(buf)

\* cursor.read_u16::<LE>() at offset pos
read_u16_LE(buf, pos) == buf[pos + 1] + 256 * buf[pos + 2]

\* cursor.read_u32::<LE>() at offset pos
read_u32_LE(buf, pos) ==
    buf[pos + 1] + 256 * buf[pos + 2] + 65536 * buf[pos + 3]
        + 16777216 * buf[pos + 4]

\* A read_bytes that takes all the bytes left in the buffer.
read_bytes_to_end(buf, pos, len) == SubSeq(buf, pos + 1, Len(buf))

\* parse_util::read_bytes(cursor, len) at offset pos: the len bytes it
\* returns when that many are left (it fails with InvalidPacket otherwise).
read_bytes(buf, pos, len) == SubSeq(buf, pos + 1, pos + len)

\* A Status that keeps the code without its fatal bit.
StatusOk_no_fatal_bit(code, kind, name) ==
    [ret |-> "Ok", code |-> code % 32768, kind |-> kind, status |-> name]

\* A Status, or the error Status::parse gives instead.
StatusOk(code, kind, name) ==
    [ret |-> "Ok", code |-> code, kind |-> kind, status |-> name]
StatusErr(r, code) == [ret |-> r, code |-> code, kind |-> "-", status |-> "-"]

\* Status::parse was not reached.
NoStatus == StatusErr("-", 0)

\* Status::parse_gencp_status: the match on code
GenCpStatus(code) ==
    CASE code = 0     -> "Success"            \* 0x0000
      [] code = 32769 -> "NotImplemented"     \* 0x8001
      [] code = 32770 -> "InvalidParameter"   \* 0x8002
      [] code = 32771 -> "InvalidAddress"     \* 0x8003
      [] code = 32772 -> "WriteProtect"       \* 0x8004
      [] code = 32773 -> "BadAlignment"       \* 0x8005
      [] code = 32774 -> "AccessDenied"       \* 0x8006
      [] code = 32775 -> "Busy"               \* 0x8007
      [] code = 32779 -> "Timeout"            \* 0x800B
      [] code = 32782 -> "InvalidHeader"      \* 0x800E
      [] code = 32783 -> "WrongConfig"        \* 0x800F
      [] code = 36863 -> "GenericError"       \* 0x8FFF
      [] OTHER        -> "Invalid"

\* Status::parse_usb_status: the match on code
UsbSpecificStatus(code) ==
    CASE code = 40961 -> "ResendNotSupported"     \* 0xA001
      [] code = 40962 -> "StreamEndpointHalted"   \* 0xA002
      [] code = 40963 -> "PayloadSizeNotAligned"  \* 0xA003
      [] code = 40964 -> "InvalidSiState"         \* 0xA004
      [] code = 40965 -> "EventEndpointHalted"    \* 0xA005
      [] OTHER        -> "Invalid"

\* Status::parse_gencp_status; dbg: the build has debug assertions.
parse_gencp_status(code, dbg) ==
    IF dbg /\ ~(trailing_zeros(Shr16(code, 13)) >= 2) THEN StatusErr("Panic", code)
    ELSE IF GenCpStatus(code) = "Invalid" THEN StatusErr("InvalidPacket", code)
    ELSE StatusOk(code, "GenCp", GenCpStatus(code))

\* Status::parse_usb_status
parse_usb_status(code, dbg) ==
    IF dbg /\ BitAnd(Shr16(code, 13), 3) # 1 THEN StatusErr("Panic", code)
    ELSE IF UsbSpecificStatus(code) = "Invalid" THEN StatusErr("InvalidPacket", code)
    ELSE StatusOk(code, "UsbSpecific", UsbSpecificStatus(code))

\* Status::parse, from the code read; the mask is the literal 0x11.
Status_parse(code, dbg) ==
    LET namespace == BitAnd(Shr16(code, 13), 17) IN
    CASE namespace = 0 -> parse_gencp_status(code, dbg)
      [] namespace = 1 -> parse_usb_status(code, dbg)
      [] namespace = 2 -> StatusOk(code, "DeviceSpecific", "-")
      [] OTHER         -> StatusErr("InvalidPacket", code)

\* An is_success that holds for every GenCp status.
is_success_any_gencp(st) == st.kind = "GenCp"

\* Status::is_success
is_success(st) == st.kind = "GenCp" /\ st.status = "Success"

\* Status::is_fatal
is_fatal(st) == Shr16(st.code, 15) = 1

\* A ScdKind; id is the payload of ScdKind::Custom and 0 for the other kinds.
ScdKind(kind, id) == [kind |-> kind, id |-> id]

\* ScdKind::parse was not reached.
NoScdKind == ScdKind("-", 0)

\* A ScdKind::parse that takes every id with bit 15 set as a custom one.
ScdKind_parse_any_high(id) ==
    IF Shr16(id, 15) = 1 THEN ScdKind("Custom", id) ELSE ScdKind("Invalid", 0)

\* ScdKind::parse, from the id read; kind "Invalid" stands for the
\* InvalidPacket error.
ScdKind_parse(id) ==
    CASE id = 2049 -> ScdKind("ReadMem", 0)           \* 0x0801
      [] id = 2051 -> ScdKind("WriteMem", 0)          \* 0x0803
      [] id = 2053 -> ScdKind("Pending", 0)           \* 0x0805
      [] id = 2055 -> ScdKind("ReadMemStacked", 0)    \* 0x0807
      [] id = 2057 -> ScdKind("WriteMemStacked", 0)   \* 0x0809
      [] OTHER -> IF Shr16(id, 15) = 1 /\ BitAnd(id, 1) = 1
                  THEN ScdKind("Custom", id)
                  ELSE ScdKind("Invalid", 0)

\* An AckScd, no AckScd, or the error AckScd::parse gives instead.
SomeScd(kind, data) == [ret |-> "Ok", some |-> TRUE, kind |-> kind, data |-> data]
NoneScd == [ret |-> "Ok", some |-> FALSE, kind |-> "-", data |-> <<>>]
ScdErr(r) == [ret |-> r, some |-> FALSE, kind |-> "-", data |-> <<>>]

\* A parse_write_mem / parse_pending that does not look at the reserved bytes.
parse_reserved_u16_unchecked(buf, pos, kind) ==
    IF ~CanRead(buf, pos, 4) THEN ScdErr("Eof")
    ELSE SomeScd(kind, <<read_u16_LE(buf, pos + 2)>>)

\* AckScd::parse_write_mem / parse_pending at offset pos: two reserved bytes
\* that must be zero, then a u16 (the length, or the timeout in ms).
parse_reserved_u16(buf, pos, kind) ==
    IF ~CanRead(buf, pos, 2) THEN ScdErr("Eof")
    ELSE IF read_u16_LE(buf, pos) # 0 THEN ScdErr("InvalidPacket")
    ELSE IF ~CanRead(buf, pos + 2, 2) THEN ScdErr("Eof")
    ELSE SomeScd(kind, <<read_u16_LE(buf, pos + 2)>>)

\* AckScd::parse_write_mem_stacked: the loop, with len left and lengths read.
RECURSIVE parse_write_mem_stacked(_, _, _, _)
parse_write_mem_stacked(buf, pos, len, lengths) ==
    IF len = 0 THEN SomeScd("WriteMemStacked", lengths)
    ELSE IF ~CanRead(buf, pos, 2) THEN ScdErr("Eof")
    ELSE IF read_u16_LE(buf, pos) # 0 THEN ScdErr("InvalidPacket")
    ELSE IF ~CanRead(buf, pos + 2, 2) THEN ScdErr("Eof")
    ELSE parse_write_mem_stacked(buf, pos + 4,
                                 IF len < 4 THEN 0 ELSE len - 4,
                                 Append(lengths, read_u16_LE(buf, pos + 2)))

\* AckScd::parse at offset pos
AckScd_parse(buf, pos, kind, len) ==
    CASE kind \in {"ReadMem", "ReadMemStacked", "Custom"} ->
             (IF ~CanRead(buf, pos, len) THEN ScdErr("InvalidPacket")
              ELSE SomeScd(kind, read_bytes(buf, pos, len)))
      [] kind \in {"WriteMem", "Pending"} -> parse_reserved_u16(buf, pos, kind)
      [] kind = "WriteMemStacked" -> parse_write_mem_stacked(buf, pos, len, <<>>)

\* What AckPacket::parse gives: Ok with the packet, or an error.
AckResult(dbg, r, st, scd_kind, request_id, scd) ==
    [parsed |-> TRUE, dbg |-> dbg, ret |-> r, st |-> st, scd_kind |-> scd_kind,
     request_id |-> request_id, scd |-> scd]

\* AckPacket::custom_command_id of a parsed packet: <<id>> for Some(id), <<>>
\* for None.
custom_command_id(packet) ==
    IF packet.scd_kind.kind = "Custom" THEN <<packet.scd_kind.id>> ELSE <<>>

\* AckPacket::parse: parse_prefix, AckCcd::parse (status, scd_kind, scd_len,
\* request_id), then AckScd::parse when the status is a success.
AckPacket_parse(buf, dbg) ==
    IF ~CanRead(buf, 0, 4)
    THEN AckResult(dbg, "Eof", NoStatus, NoScdKind, 0, NoneScd)
    ELSE IF read_u32_LE(buf, 0) # PREFIX_MAGIC
    THEN AckResult(dbg, "InvalidPacket", NoStatus, NoScdKind, 0, NoneScd)
    ELSE IF ~CanRead(buf, 4, 2)
    THEN AckResult(dbg, "Eof", NoStatus, NoScdKind, 0, NoneScd)
    ELSE LET st == Status_parse(read_u16_LE(buf, 4), dbg) IN
    IF st.ret # "Ok" THEN AckResult(dbg, st.ret, st, NoScdKind, 0, NoneScd)
    ELSE IF ~CanRead(buf, 6, 2)
    THEN AckResult(dbg, "Eof", st, NoScdKind, 0, NoneScd)
    ELSE LET scd_kind == ScdKind_parse(read_u16_LE(buf, 6)) IN
    IF scd_kind.kind = "Invalid"
    THEN AckResult(dbg, "InvalidPacket", st, NoScdKind, 0, NoneScd)
    ELSE IF ~CanRead(buf, 8, 4)
    THEN AckResult(dbg, "Eof", st, NoScdKind, 0, NoneScd)
    ELSE LET scd_len == read_u16_LE(buf, 8)
             request_id == read_u16_LE(buf, 10)
             scd == IF is_success(st)
                    THEN AckScd_parse(buf, 12, scd_kind.kind, scd_len)
                    ELSE NoneScd
         IN  IF scd.ret # "Ok"
             THEN AckResult(dbg, scd.ret, st, NoScdKind, request_id, NoneScd)
             ELSE AckResult(dbg, "Ok", st, scd_kind, request_id, scd)

\* The status codes of the buffers received: every listed code, and codes
\* outside the tables in each of the four namespaces.
StatusCodes ==
    {0, 32769, 32770, 32771, 32772, 32773, 32774, 32775, 32779, 32782, 32783,
     36863, 40961, 40962, 40963, 40964, 40965}
    \cup {1, 32776, 40966, 8193}            \* 0x0001, 0x8008, 0xA006, 0x2001
    \cup {16385, 49153, 24576, 57345}       \* 0x4001, 0xC001, 0x6000, 0xE001

\* The command ids of the buffers received: the five listed ones, a custom
\* one (0x8001), and unknown ones with neither, only the high and only the
\* low of the two custom bits (0x0802, 0x8000, 0x080B).
CommandIds == {2049, 2051, 2053, 2055, 2057, 32769, 2050, 32768, 2059}

\* The request ids, scd lengths and scd bytes of the buffers received.
RequestIds == {1, 258}
ScdLens == {0, 4, 6, 8}
ScdPayloads ==
    {<<>>, <<1, 2, 3, 4>>, <<0, 0, 10, 0>>, <<1, 0, 10, 0>>,
     <<0, 0, 3, 0, 0, 0>>, <<0, 0, 3, 0, 0, 0, 10, 0>>,
     <<0, 0, 3, 0, 1, 0, 10, 0>>}

\* The prefixes of the buffers received: the magic and a wrong one.
Prefixes == {PREFIX_MAGIC, PREFIX_MAGIC - 1}

\* The lengths the buffers received are cut to (20: not cut).
CutLens == {2, 5, 9, 11, 20}

\* The first n bytes of buf.
Cut(buf, n) == SubSeq(buf, 1, IF n < Len(buf) THEN n ELSE Len(buf))

\* A buffer arrives from the device.
ack_receive ==
    /\ ackBuf = <<>>
    /\ ~ack.parsed
    /\ \E prefix \in Prefixes, code \in StatusCodes, id \in CommandIds,
          len \in ScdLens, rid \in RequestIds, scd \in ScdPayloads,
          n \in CutLens :
         ackBuf' = Cut(serialize_header(prefix, code, id, len, rid) \o scd, n)
    /\ UNCHANGED ack
    /\ UNCHANGED nonAckVars

\* AckPacket::parse on the buffer, in a build with or without debug
\* assertions.
ack_parse ==
    /\ ackBuf # <<>>
    /\ ~ack.parsed
    /\ \E dbg \in BOOLEAN : ack' = AckPacket_parse(ackBuf, dbg)
    /\ UNCHANGED ackBuf
    /\ UNCHANGED nonAckVars

\* The packet and its buffer are dropped.
ack_release ==
    /\ ack.parsed
    /\ ackBuf' = <<>>
    /\ ack' = NoAck
    /\ UNCHANGED nonAckVars

AckNext ==
    \/ ack_receive
    \/ ack_parse
    \/ ack_release

\* The parser alone.
AckSpec == Init /\ [][AckNext]_vars

----------------------------------------------------------------------------
\* Properties of the acknowledge parser

\* The little-endian u16 at byte offset off of the buffer received.
WireU16(off) == ackBuf[off + 1] + 256 * ackBuf[off + 2]

\* Status::parse was applied to the status code of the buffer received.
StatusParsed == ack.parsed /\ ack.st.ret # "-"

\* The namespace of the status code on the wire: its bits 14..13.
WireNamespace == (WireU16(4) \div 8192) % 4

\* C27: for every buffer AckPacket::parse accepts, status().code() is the
\* little-endian u16 at offset 4 and request_id() the little-endian u16 at
\* offset 10, for success and non-success statuses alike.
C27_CodeAndRequestId ==
    (ack.parsed /\ ack.ret = "Ok")
    => (/\ ack.st.code = WireU16(4)
        /\ ack.request_id = WireU16(10))

\* An accepted ack with the non-success status 0x800F and request id 0x0102.
C27_Witness ==
    /\ ack.parsed /\ ack.ret = "Ok"
    /\ ack.st.code = 32783
    /\ ~is_success(ack.st)
    /\ ack.request_id = 258

\* C28: in every accepted ack the scd is present iff the status is Success.
C28_ScdIffSuccess ==
    (ack.parsed /\ ack.ret = "Ok")
    => (ack.scd.some <=> (ack.st.kind = "GenCp" /\ ack.st.status = "Success"))

\* An accepted ack with a non-success status has no scd although bytes
\* follow its header.
C28_Witness ==
    /\ ack.parsed /\ ack.ret = "Ok"
    /\ ack.st.status = "WrongConfig"
    /\ Len(ackBuf) > 12
    /\ ~ack.scd.some

\* C29: a status code whose bits 14..13 are 10 parses as a device-specific
\* status that keeps the raw code, whatever its other bits.
C29_DeviceSpecific ==
    (StatusParsed /\ WireNamespace = 2)
    => (/\ ack.st.ret = "Ok"
        /\ ack.st.kind = "DeviceSpecific"
        /\ ack.st.code = WireU16(4))

\* C30: Status::parse gives InvalidPacket for every code whose namespace is
\* 11 and for every code of the GenCP or USB namespace outside the tables,
\* gives each listed code its named status (0x800F: GenCp WrongConfig,
\* 0xA001: UsbSpecific ResendNotSupported, both fatal), and never panics.
C30_StatusRejects ==
    StatusParsed
    => (/\ ack.st.ret # "Panic"
        /\ WireNamespace = 3 => ack.st.ret = "InvalidPacket"
        /\ (/\ WireNamespace \in {0, 1}
            /\ GenCpStatus(WireU16(4)) = "Invalid"
            /\ UsbSpecificStatus(WireU16(4)) = "Invalid")
               => ack.st.ret = "InvalidPacket"
        /\ WireU16(4) = 32783
               => (/\ ack.st.ret = "Ok" /\ ack.st.kind = "GenCp"
                   /\ ack.st.status = "WrongConfig" /\ is_fatal(ack.st))
        /\ WireU16(4) = 40961
               => (/\ ack.st.ret = "Ok" /\ ack.st.kind = "UsbSpecific"
                   /\ ack.st.status = "ResendNotSupported" /\ is_fatal(ack.st)))

\* AckPacket::parse was applied to a buffer that holds the whole 12-byte
\* header with the right prefix magic.
HeaderParsed ==
    /\ ack.parsed
    /\ Len(ackBuf) >= 12
    /\ read_u32_LE(ackBuf, 0) = PREFIX_MAGIC

\* The number of WriteMemStacked entries the loop asks for: one for every
\* started group of four bytes of scd_len.
StackedEntries == (WireU16(8) + 3) \div 4

\* C31: a Success WriteMemStacked ack whose scd_len is not divisible by 4
\* and whose payload holds exactly scd_len bytes is accepted, with the
\* lengths of the whole entries.
C31_PartialEntry ==
    (/\ HeaderParsed
     /\ WireU16(4) = 0
     /\ WireU16(6) = 2057
     /\ WireU16(8) % 4 # 0
     /\ Len(ackBuf) = 12 + WireU16(8))
    => (/\ ack.ret = "Ok"
        /\ ack.scd.some
        /\ ack.scd.kind = "WriteMemStacked"
        /\ ack.scd.data =
               [i \in 1..(WireU16(8) \div 4) |-> WireU16(12 + 4 * (i - 1) + 2)])

\* C32: a buffer with a wrong prefix magic, or a Success ack whose reserved
\* u16 is not zero in a WriteMem, a Pending or one of the WriteMemStacked
\* entries asked for, is rejected with InvalidPacket and gives no packet.
C32_NeverDelivered ==
    /\ (ack.parsed /\ Len(ackBuf) >= 4 /\ read_u32_LE(ackBuf, 0) # PREFIX_MAGIC)
           => (ack.ret = "InvalidPacket" /\ ~ack.scd.some)
    /\ (/\ HeaderParsed
        /\ WireU16(4) = 0
        /\ WireU16(6) \in {2051, 2053}
        /\ Len(ackBuf) >= 14
        /\ WireU16(12) # 0)
           => (ack.ret = "InvalidPacket" /\ ~ack.scd.some)
    /\ (/\ HeaderParsed
        /\ WireU16(4) = 0
        /\ WireU16(6) = 2057
        /\ \E k \in 0..(StackedEntries - 1) :
              /\ Len(ackBuf) >= 12 + 4 * k + 2
              /\ WireU16(12 + 4 * k) # 0)
           => (ack.ret = "InvalidPacket" /\ ~ack.scd.some)

\* A WriteMemStacked ack was rejected for the reserved u16 of its second
\* entry, the first entry being well formed.
C32_Witness ==
    /\ HeaderParsed
    /\ WireU16(4) = 0
    /\ WireU16(6) = 2057
    /\ WireU16(8) = 8
    /\ Len(ackBuf) = 20
    /\ WireU16(12) = 0
    /\ WireU16(16) # 0
    /\ ack.ret = "InvalidPacket"

\* The command ids whose SCD is the bytes themselves: ReadMem,
\* ReadMemStacked and the custom ones.
DataKind ==
    \/ WireU16(6) \in {2049, 2055}
    \/ (WireU16(6) \div 32768 = 1 /\ WireU16(6) % 2 = 1)

\* C33: for a Success ack of kind ReadMem, ReadMemStacked or Custom, the
\* SCD data are the scd_len bytes at offsets 12 .. 12 + scd_len - 1 of the
\* buffer; with fewer than scd_len bytes after the header the parse fails
\* with InvalidPacket.
C33_DataIsScdLenBytes ==
    (HeaderParsed /\ WireU16(4) = 0 /\ DataKind)
    => IF Len(ackBuf) - 12 >= WireU16(8)
       THEN /\ ack.ret = "Ok"
            /\ ack.scd.some
            /\ Len(ack.scd.data) = WireU16(8)
            /\ \A i \in 1..WireU16(8) : ack.scd.data[i] = ackBuf[12 + i]
       ELSE ack.ret = "InvalidPacket" /\ ~ack.scd.some

\* A ReadMem ack was accepted whose buffer holds more bytes than scd_len:
\* the data are the first scd_len of them.
C33_Witness ==
    /\ HeaderParsed
    /\ WireU16(4) = 0
    /\ WireU16(6) = 2049
    /\ WireU16(8) = 4
    /\ Len(ackBuf) = 20
    /\ ack.ret = "Ok"
    /\ ack.scd.kind = "ReadMem"
    /\ Len(ack.scd.data) = 4

\* The kind the claim gives for a command id, Custom being decided by bits
\* 15 and 0 of the id.
KindOfId(id) ==
    CASE id = 2049 -> "ReadMem"
      [] id = 2051 -> "WriteMem"
      [] id = 2053 -> "Pending"
      [] id = 2055 -> "ReadMemStacked"
      [] id = 2057 -> "WriteMemStacked"
      [] OTHER -> IF (id \div 32768) % 2 = 1 /\ id % 2 = 1 THEN "Custom"
                  ELSE "Invalid"

\* C34: once the status is parsed, the command id at offset 6 decides: an
\* id that is none of the five listed ones and has not both bit 15 and bit 0
\* set is rejected with InvalidPacket; an accepted packet has the kind of
\* its id, Custom carrying the id, and custom_command_id() is Some(id)
\* exactly for a Custom(id) kind.
C34_ScdKind ==
    (/\ HeaderParsed
     /\ ack.st.ret = "Ok")
    => (/\ KindOfId(WireU16(6)) = "Invalid"
           => (ack.ret = "InvalidPacket" /\ ~ack.scd.some)
        /\ ack.ret = "Ok"
           => (/\ ack.scd_kind.kind = KindOfId(WireU16(6))
               /\ KindOfId(WireU16(6)) = "Custom"
                      => (/\ ack.scd_kind.id = WireU16(6)
                          /\ custom_command_id(ack) = <<WireU16(6)>>)
               /\ KindOfId(WireU16(6)) # "Custom"
                      => custom_command_id(ack) = <<>>
               /\ ack.scd.some => ack.scd.kind = ack.scd_kind.kind))

\* A custom ack was accepted and gives its command id.
C34_Witness ==
    /\ HeaderParsed
    /\ ack.ret = "Ok"
    /\ WireU16(6) = 32769
    /\ ack.scd_kind.kind = "Custom"
    /\ custom_command_id(ack) = <<32769>>

====
